---- MODULE Spec2Model ----
(***************************************************************************)
(* Model of the video processing pipeline of VISOR:                        *)
(*   backend/app/api/process.py            job registry and HTTP handlers  *)
(*   backend/app/services/video_processor.py  frame loop, IoU tracker,     *)
(*                                            per-track enrichment         *)
(*                                                                         *)
(* Handlers are "async def" functions on one event loop: a handler body    *)
(* without an await is one atomic step.  The background task is cut at     *)
(* its awaits; every step of it holds at most one write to the shared      *)
(* registry processing_status or to the tracking file.                     *)
(*                                                                         *)
(* Numbers: bounding boxes, fps and frame counts are integers here; an     *)
(* IoU and a progress value are exact fractions [num, den].                *)
(***************************************************************************)
EXTENDS Integers, Sequences, FiniteSets, TLC

VARIABLES
    videoFiles,         \* storage/videos: video_id -> what cv2.VideoCapture finds, or NoFile
    detector,           \* which Detector collaborator is installed (see DetectorLists)
    faults,             \* number of collaborator failures the environment may still inject
    processing_status,  \* process.py:16  video_id -> {status, progress, message, logs}
    tracking,           \* storage/tracking/<video_id>_tracking.json, per video_id
    tasks,              \* background tasks added by start_processing, in launch order
    logged,             \* number of log_message calls so far
    requests,           \* the start_processing calls so far, with what each did
    iou_call,           \* SpecIou: one call of _calculate_iou, its arguments and what it returned
    mask_files          \* storage/crops and storage/masks: file name -> whose mask the file holds

vars == <<videoFiles, detector, faults, processing_status, tracking, tasks, logged, requests,
          iou_call, mask_files>>

NoCall == [made |-> FALSE]
NoMasks == [crops |-> <<>>, masks |-> <<>>]

(***************************************************************************)
(* Bounds of the model.                                                    *)
(***************************************************************************)
MaxStarts == 2      \* calls of start_processing in one behaviour
MaxFrames == 3      \* frames a video source yields at most
MaxFaults == 1      \* collaborator failures injected in one behaviour
MaxAppend == 120    \* SpecLog: log_message calls in one behaviour
MaxDets == 2        \* SpecTracker: length of the lists given to _assign_track_ids
MaxFps == 8         \* SpecRate: largest frame rate a video source reports
FloatBits == 3      \* SpecIou: significant bits of a float
MaxEighths == 8     \* SpecIou: largest coordinate of a box, in eighths

Videos == {"v1", "v2", "v3"}
Labels == {"cup", "bottle"}

\* What a path under storage/videos holds: no file, or a file with what
\* cv2.VideoCapture reports for it and the number of frames it yields.
NoFile == [exists |-> FALSE, opened |-> FALSE, fps |-> 0, total_frames |-> 0, nframes |-> 0]
Source(fps, total_frames, nframes) ==
    [exists |-> TRUE, opened |-> TRUE, fps |-> fps, total_frames |-> total_frames,
     nframes |-> nframes]
Unreadable == [exists |-> TRUE, opened |-> FALSE, fps |-> 0, total_frames |-> 0, nframes |-> 0]

NoArtifact == [kind |-> "absent", data |-> <<>>]

(***************************************************************************)
(* Fractions: Python floats that are quotients of small integers.          *)
(***************************************************************************)
RECURSIVE GCD(_, _)
GCD(a, b) == IF b = 0 THEN a ELSE GCD(b, a % b)

Frac(n, d) == LET g == GCD(n, d) IN [num |-> n \div g, den |-> d \div g]
FracGt(a, b) == a.num * b.den > b.num * a.den
FracLe(a, b) == a.num * b.den <= b.num * a.den
Zero == Frac(0, 1)
Hundred == Frac(100, 1)

Max(a, b) == IF a >= b THEN a ELSE b
Min(a, b) == IF a <= b THEN a ELSE b

(***************************************************************************)
(* video_processor.py:61-85  _calculate_iou                                *)
(***************************************************************************)
calculate_iou(box1, box2) ==
    LET x1_min == box1.x
        y1_min == box1.y
        x1_max == x1_min + box1.width
        y1_max == y1_min + box1.height
        x2_min == box2.x
        y2_min == box2.y
        x2_max == x2_min + box2.width
        y2_max == y2_min + box2.height
        inter_x_min == Max(x1_min, x2_min)
        inter_y_min == Max(y1_min, y2_min)
        inter_x_max == Min(x1_max, x2_max)
        inter_y_max == Min(y1_max, y2_max)
        inter_area == (inter_x_max - inter_x_min) * (inter_y_max - inter_y_min)
        box1_area == box1.width * box1.height
        box2_area == box2.width * box2.height
        union_area == box1_area + box2_area - inter_area
    IN  IF inter_x_max < inter_x_min \/ inter_y_max < inter_y_min
        THEN Zero
        ELSE IF union_area > 0 THEN Frac(inter_area, union_area) ELSE Zero

\* the threshold is a quarter
IouThreshold_quarter == Frac(1, 4)

\* video_processor.py:100  best_iou = 0.3
IouThreshold == Frac(3, 10)

(***************************************************************************)
(* video_processor.py:99-115  the inner loop of _assign_track_ids: the     *)
(* best previous detection for curr_det, or None.  best is                 *)
(* [iou, match], match = 0 for None, else an index into                    *)
(* previous_detections.                                                    *)
(***************************************************************************)
RECURSIVE best_match_from(_, _, _, _, _)
best_match_from(curr_det, previous_detections, matched, j, best) ==
    IF j > Len(previous_detections) THEN best
    ELSE LET prev_det == previous_detections[j]
             iou == calculate_iou(curr_det.bbox, prev_det.bbox)
         IN  IF prev_det.track_id \in matched
             THEN best_match_from(curr_det, previous_detections, matched, j + 1, best)
             ELSE IF curr_det.label # prev_det.label
             THEN best_match_from(curr_det, previous_detections, matched, j + 1, best)
             ELSE IF FracGt(iou, best.iou)
             THEN best_match_from(curr_det, previous_detections, matched, j + 1,
                                  [iou |-> iou, match |-> j])
             ELSE best_match_from(curr_det, previous_detections, matched, j + 1, best)

\* the same search without the label test
RECURSIVE best_match_any_label_from(_, _, _, _, _)
best_match_any_label_from(curr_det, previous_detections, matched, j, best) ==
    IF j > Len(previous_detections) THEN best
    ELSE LET prev_det == previous_detections[j]
             iou == calculate_iou(curr_det.bbox, prev_det.bbox)
         IN  IF prev_det.track_id \in matched
             THEN best_match_any_label_from(curr_det, previous_detections, matched, j + 1, best)
             ELSE IF FracGt(iou, best.iou)
             THEN best_match_any_label_from(curr_det, previous_detections, matched, j + 1,
                                            [iou |-> iou, match |-> j])
             ELSE best_match_any_label_from(curr_det, previous_detections, matched, j + 1, best)

best_match_any_label(curr_det, previous_detections, matched) ==
    best_match_any_label_from(curr_det, previous_detections, matched, 1,
                              [iou |-> IouThreshold, match |-> 0])

\* the same search where a later candidate of equal IoU replaces the best one
RECURSIVE best_match_last_from(_, _, _, _, _)
best_match_last_from(curr_det, previous_detections, matched, j, best) ==
    IF j > Len(previous_detections) THEN best
    ELSE LET prev_det == previous_detections[j]
             iou == calculate_iou(curr_det.bbox, prev_det.bbox)
         IN  IF prev_det.track_id \in matched
             THEN best_match_last_from(curr_det, previous_detections, matched, j + 1, best)
             ELSE IF curr_det.label # prev_det.label
             THEN best_match_last_from(curr_det, previous_detections, matched, j + 1, best)
             ELSE IF FracGt(iou, best.iou) \/ (best.match # 0 /\ iou = best.iou)
             THEN best_match_last_from(curr_det, previous_detections, matched, j + 1,
                                       [iou |-> iou, match |-> j])
             ELSE best_match_last_from(curr_det, previous_detections, matched, j + 1, best)

best_match_last(curr_det, previous_detections, matched) ==
    best_match_last_from(curr_det, previous_detections, matched, 1,
                         [iou |-> IouThreshold, match |-> 0])

best_match(curr_det, previous_detections, matched) ==
    best_match_from(curr_det, previous_detections, matched, 1,
                    [iou |-> IouThreshold, match |-> 0])

WithTrack(det, id) ==
    [label |-> det.label, bbox |-> det.bbox, confidence |-> det.confidence, track_id |-> id]

\* the counter is advanced once after the loop instead of once per detection
assign_first_once(current_detections, i, next_track_id, out, fresh) ==
    [detections |-> [j \in DOMAIN current_detections |->
                        WithTrack(current_detections[j], next_track_id)],
     next_track_id |-> next_track_id + 1,
     fresh |-> <<next_track_id>>]

\* video_processor.py:89-94  first frame: every detection gets a new id
RECURSIVE assign_first(_, _, _, _, _)
assign_first(current_detections, i, next_track_id, out, fresh) ==
    IF i > Len(current_detections)
    THEN [detections |-> out, next_track_id |-> next_track_id, fresh |-> fresh]
    ELSE assign_first(current_detections, i + 1, next_track_id + 1,
                      Append(out, WithTrack(current_detections[i], next_track_id)),
                      Append(fresh, next_track_id))

\* a reused previous id is not marked as matched
RECURSIVE assign_matching_unmarked(_, _, _, _, _, _, _)
assign_matching_unmarked(current_detections, previous_detections, i, matched, next_track_id, out, fresh) ==
    IF i > Len(current_detections)
    THEN [detections |-> out, next_track_id |-> next_track_id, fresh |-> fresh]
    ELSE LET curr_det == current_detections[i]
             best == best_match(curr_det, previous_detections, matched)
         IN  IF best.match # 0
             THEN LET id == previous_detections[best.match].track_id
                  IN  assign_matching_unmarked(current_detections, previous_detections,
                                               i + 1, matched, next_track_id,
                                               Append(out, WithTrack(curr_det, id)), fresh)
             ELSE assign_matching_unmarked(current_detections, previous_detections, i + 1,
                                           matched, next_track_id + 1,
                                           Append(out, WithTrack(curr_det, next_track_id)),
                                           Append(fresh, next_track_id))

\* the counter advances for every detection, reused id or fresh
RECURSIVE assign_matching_counting(_, _, _, _, _, _, _)
assign_matching_counting(current_detections, previous_detections, i, matched, next_track_id, out, fresh) ==
    IF i > Len(current_detections)
    THEN [detections |-> out, next_track_id |-> next_track_id, fresh |-> fresh]
    ELSE LET curr_det == current_detections[i]
             best == best_match(curr_det, previous_detections, matched)
         IN  IF best.match # 0
             THEN LET id == previous_detections[best.match].track_id
                  IN  assign_matching_counting(current_detections, previous_detections,
                                               i + 1, matched \cup {id}, next_track_id + 1,
                                               Append(out, WithTrack(curr_det, id)), fresh)
             ELSE assign_matching_counting(current_detections, previous_detections, i + 1,
                                           matched, next_track_id + 1,
                                           Append(out, WithTrack(curr_det, next_track_id)),
                                           Append(fresh, next_track_id))

\* video_processor.py:96-125  match the current detections to the previous ones
RECURSIVE assign_matching(_, _, _, _, _, _, _)
assign_matching(current_detections, previous_detections, i, matched, next_track_id, out, fresh) ==
    IF i > Len(current_detections)
    THEN [detections |-> out, next_track_id |-> next_track_id, fresh |-> fresh]
    ELSE LET curr_det == current_detections[i]
             best == best_match(curr_det, previous_detections, matched)
         IN  IF best.match # 0
             THEN LET id == previous_detections[best.match].track_id
                  IN  assign_matching(current_detections, previous_detections, i + 1,
                                      matched \cup {id}, next_track_id,
                                      Append(out, WithTrack(curr_det, id)), fresh)
             ELSE assign_matching(current_detections, previous_detections, i + 1,
                                  matched, next_track_id + 1,
                                  Append(out, WithTrack(curr_det, next_track_id)),
                                  Append(fresh, next_track_id))

\* the first-frame branch numbers from 1 instead of from next_track_id
assign_track_ids_restart(current_detections, previous_detections, next_track_id) ==
    IF previous_detections = <<>>
    THEN assign_first(current_detections, 1, 1, <<>>, <<>>)
    ELSE assign_matching(current_detections, previous_detections, 1, {}, next_track_id,
                         <<>>, <<>>)

(***************************************************************************)
(* video_processor.py:87-125  _assign_track_ids.  Returns the detections   *)
(* with their track_id and the new counter; fresh lists, in order, the     *)
(* ids set from next_track_id (lines 92 and 122).                          *)
(***************************************************************************)
assign_track_ids(current_detections, previous_detections, next_track_id) ==
    IF previous_detections = <<>>
    THEN assign_first(current_detections, 1, next_track_id, <<>>, <<>>)
    ELSE assign_matching(current_detections, previous_detections, 1, {}, next_track_id,
                         <<>>, <<>>)

(***************************************************************************)
(* The job record of process.py and the callbacks that write it.           *)
(***************************************************************************)
\* process.py:125  if len(logs) > 50
LogCap == 50

\* process.py:51-56  the record start_processing registers
fresh_status ==
    [status |-> "processing", progress |-> Zero,
     message |-> "Starting video processing...", logs |-> <<>>]

\* the first 50 lines are kept instead of the last 50
log_message_keep_first(rec, message) ==
    LET appended == Append(rec.logs, message)
    IN  [rec EXCEPT !.logs = IF Len(appended) > LogCap
                             THEN SubSeq(appended, 1, LogCap)
                             ELSE appended]

\* process.py:120-126  log_message: append, then keep the last 50
log_message(rec, message) ==
    LET appended == Append(rec.logs, message)
    IN  [rec EXCEPT !.logs = IF Len(appended) > LogCap
                             THEN SubSeq(appended, Len(appended) - LogCap + 1, Len(appended))
                             ELSE appended]

\* the progress is written and the message left for a later step
update_progress_only(rec, progress, message) ==
    [rec EXCEPT !.progress = progress]

\* the progress reported is what is left to do
update_progress_remaining(rec, progress, message) ==
    [rec EXCEPT !.progress = Frac(100 * progress.den - progress.num, progress.den),
                !.message = message]

\* process.py:113-118  update_progress (every caller passes a message)
update_progress(rec, progress, message) ==
    [rec EXCEPT !.progress = progress, !.message = message]

\* the record is built anew on completion, without the log
complete_status_new_record(rec) ==
    [status |-> "completed", progress |-> Hundred,
     message |-> "Video processing completed successfully", logs |-> <<>>]

\* process.py:131-134  the three assignments after process_video returned
complete_status(rec) ==
    [rec EXCEPT !.status = "completed", !.progress = Hundred,
                !.message = "Video processing completed successfully"]

\* the failed record starts with an empty log
failed_status_empty_log(rec, e) ==
    [status |-> "failed", progress |-> Zero,
     message |-> "Processing failed: " \o e, logs |-> <<>>]

\* process.py:136-143  the except branch of process_video_task
failed_status(rec, e) ==
    [status |-> "failed", progress |-> Zero,
     message |-> "Processing failed: " \o e, logs |-> rec.logs]

\* the id counter is kept by the shared VideoProcessor: a run goes on from the ids
\* the runs before it have given out
new_task_shared_counter(video_id) ==
    [video_id |-> video_id, pc |-> "log1",
     opened |-> FALSE, fps |-> 0, total_frames |-> 0, nframes |-> 0, sample_rate |-> 1,
     frame_num |-> 0, processed_frames |-> 0,
     next_track_id |-> 1 + Cardinality({t \in DOMAIN tasks : tasks[t].fresh_ids # <<>>}),
     previous_detections |-> <<>>, detections |-> <<>>, k |-> 0,
     frame_detections |-> <<>>, tracks_by_frame |-> <<>>, object_products |-> <<>>,
     fresh_ids |-> <<>>, enrichments |-> <<>>, analyzed |-> <<>>]

(***************************************************************************)
(* A background task: process_video_task and the locals of process_video.  *)
(* pc is the await it stands at.  fresh_ids and enrichments are history:   *)
(* the ids taken from the counter, and the calls of                        *)
(* _process_tracked_object with the collaborator calls each made.          *)
(***************************************************************************)
new_task(video_id) ==
    [video_id |-> video_id, pc |-> "log1",
     opened |-> FALSE, fps |-> 0, total_frames |-> 0, nframes |-> 0, sample_rate |-> 1,
     frame_num |-> 0, processed_frames |-> 0, next_track_id |-> 1,
     previous_detections |-> <<>>, detections |-> <<>>, k |-> 0,
     frame_detections |-> <<>>, tracks_by_frame |-> <<>>, object_products |-> <<>>,
     fresh_ids |-> <<>>, enrichments |-> <<>>, analyzed |-> <<>>]

\* a task that returned: its locals are gone
done_task(video_id) == [new_task(video_id) EXCEPT !.pc = "done"]

Running(t) == tasks[t].pc # "done"

\* dict[key] = value
Put(dict, key, value) ==
    [x \in DOMAIN dict \cup {key} |-> IF x = key THEN value ELSE dict[x]]

\* every frame is analyzed
sample_rate_of_one(fps) == 1

\* Python's round(n / d) for integers n >= 0, d > 0: to the nearest integer, a half
\* to the even one
round_div(n, d) ==
    LET q == n \div d
        r == n % d
    IN  IF 2 * r < d THEN q
        ELSE IF 2 * r > d THEN q + 1
        ELSE IF q % 2 = 0 THEN q ELSE q + 1

\* the timestamp is rounded to the nearest millisecond
timestamp_ms_round(frame_num, fps) == round_div(frame_num * 1000, fps)

\* int((frame_num / fps) * 1000), video_processor.py:194 and 205 (fps > 0)
timestamp_ms(frame_num, fps) == (frame_num * 1000) \div fps

(***************************************************************************)
(* Python floats in general.  A float is a binary floating-point number:   *)
(* every +, -, * and / returns the exact result rounded to the nearest     *)
(* number of FloatBits significant bits, a tie to the even one (IEEE 754   *)
(* doubles have 53 bits).  A value is the fraction it stands for.          *)
(***************************************************************************)
Abs(n) == IF n < 0 THEN 0 - n ELSE n

RECURSIVE Pow2(_)
Pow2(k) == IF k = 0 THEN 1 ELSE 2 * Pow2(k - 1)

\* the exponent e with 2^(FloatBits-1) <= n/d * 2^(-e) < 2^FloatBits, for n, d > 0
RECURSIVE float_exponent(_, _, _)
float_exponent(n, d, e) ==
    IF n >= Pow2(FloatBits) * d THEN float_exponent(n, 2 * d, e + 1)
    ELSE IF n < Pow2(FloatBits - 1) * d THEN float_exponent(2 * n, d, e - 1)
    ELSE e

\* the float nearest to n / d (d > 0)
float_of(n, d) ==
    IF n = 0 THEN Zero
    ELSE LET e == float_exponent(Abs(n), d, 0)
             m == IF e >= 0 THEN round_div(Abs(n), d * Pow2(e))
                  ELSE round_div(Abs(n) * Pow2(0 - e), d)
             sign == IF n < 0 THEN 0 - 1 ELSE 1
         IN  IF e >= 0 THEN Frac(sign * m * Pow2(e), 1) ELSE Frac(sign * m, Pow2(0 - e))

IsFloat(a) == float_of(a.num, a.den) = a

float_add(a, b) == float_of(a.num * b.den + b.num * a.den, a.den * b.den)
float_sub(a, b) == float_of(a.num * b.den - b.num * a.den, a.den * b.den)
float_mul(a, b) == float_of(a.num * b.num, a.den * b.den)
\* a / b for b > 0
float_div(a, b) == float_of(a.num * b.den, a.den * b.num)
float_max(a, b) == IF FracGt(b, a) THEN b ELSE a
float_min(a, b) == IF FracGt(a, b) THEN b ELSE a

(***************************************************************************)
(* video_processor.py:61-85  _calculate_iou on floats.  calculate_iou      *)
(* above is this function on the boxes of the tracker, whose sums and      *)
(* products are integers far below 2^53 and are computed exactly.          *)
(***************************************************************************)
calculate_iou_float(box1, box2) ==
    LET x1_min == box1.x
        y1_min == box1.y
        x1_max == float_add(x1_min, box1.width)
        y1_max == float_add(y1_min, box1.height)
        x2_min == box2.x
        y2_min == box2.y
        x2_max == float_add(x2_min, box2.width)
        y2_max == float_add(y2_min, box2.height)
        inter_x_min == float_max(x1_min, x2_min)
        inter_y_min == float_max(y1_min, y2_min)
        inter_x_max == float_min(x1_max, x2_max)
        inter_y_max == float_min(y1_max, y2_max)
        inter_area == float_mul(float_sub(inter_x_max, inter_x_min),
                                float_sub(inter_y_max, inter_y_min))
        box1_area == float_mul(box1.width, box1.height)
        box2_area == float_mul(box2.width, box2.height)
        union_area == float_sub(float_add(box1_area, box2_area), inter_area)
    IN  IF FracGt(inter_x_min, inter_x_max) \/ FracGt(inter_y_min, inter_y_max)
        THEN Zero
        ELSE IF FracGt(union_area, Zero) THEN float_div(inter_area, union_area) ELSE Zero

\* fps / 2 is rounded instead of truncated
sample_rate_of_round(fps) == Max(1, round_div(fps, 2))

\* video_processor.py:155  sample_rate = max(1, int(fps / 2))
sample_rate_of(fps) == Max(1, fps \div 2)

\* video_processor.py:183-188
frame_detection_of(detection) ==
    [track_id |-> detection.track_id, bbox |-> detection.bbox,
     class |-> detection.label, confidence |-> detection.confidence]

\* product_search.py:17-76  search_products(category, top_k=1): a list of at most one
\* product, empty when the shopping search has no result for the category
search_products(category) ==
    IF category = "bottle" THEN <<>> ELSE <<"product-" \o category \o "-0">>

\* video_processor.py:285 and 298  products[0] if products else None
first_or_none(products) == IF Len(products) > 0 THEN products[1] ELSE "null"

mask_url_of(video_id, track_id, ts) ==
    "/static/masks/" \o video_id \o "/track_" \o ToString(track_id) \o "_frame_"
        \o ToString(ts) \o ".png"

(***************************************************************************)
(* video_processor.py:243-304  _process_tracked_object.  o says how the    *)
(* collaborators answer: o.seg for segment_with_box, o.search for          *)
(* search_products in the try block, o.retry for search_products in the    *)
(* except block ("ok", "raise", or "skip" when the call is not reached).   *)
(* Returns the entry, or raised = TRUE when the except block raises.       *)
(***************************************************************************)
EnrichOutcomes ==
    { [seg |-> "ok", saved |-> TRUE, search |-> "ok", retry |-> "skip", cost |-> 0],
      [seg |-> "ok", saved |-> FALSE, search |-> "ok", retry |-> "skip", cost |-> 1],
      [seg |-> "ok", saved |-> TRUE, search |-> "raise", retry |-> "ok", cost |-> 1],
      [seg |-> "ok", saved |-> TRUE, search |-> "raise", retry |-> "raise", cost |-> 2],
      [seg |-> "raise", saved |-> FALSE, search |-> "skip", retry |-> "ok", cost |-> 1],
      [seg |-> "raise", saved |-> FALSE, search |-> "skip", retry |-> "raise", cost |-> 2] }

\* segmentation_service.py:282  the file segment_with_box saves the mask in
crop_file(video_id, ts) == video_id \o "_" \o ToString(ts) \o "_mask.png"

\* segmentation_service.py:282-284 and 364-366, video_processor.py:271-281: the
\* files one _process_tracked_object leaves.  _save_mask ignores the result of
\* cv2.imwrite, which is False when the file could not be written (o.saved); the
\* mask is copied to storage/masks when the crops file exists.
save_masks(files, video_id, track_id, ts, run, o) ==
    LET crop == crop_file(video_id, ts)
        mask == mask_url_of(video_id, track_id, ts)
        whose == [video_id |-> video_id, track_id |-> track_id, run |-> run]
        crops == IF o.saved THEN Put(files.crops, crop, whose) ELSE files.crops
    IN  IF o.seg = "raise" THEN files
        ELSE IF crop \in DOMAIN crops
        THEN [crops |-> crops, masks |-> Put(files.masks, mask, crops[crop])]
        ELSE [crops |-> crops, masks |-> files.masks]

process_tracked_object(detection, track_id, video_id, ts, o) ==
    IF o.seg = "ok" /\ o.search = "ok"
    THEN [raised |-> FALSE,
          info |-> [track_id |-> track_id, category |-> detection.label,
                    detection_method |-> "owlvit_sam",
                    mask_url |-> mask_url_of(video_id, track_id, ts),
                    product |-> first_or_none(search_products(detection.label))]]
    ELSE IF o.retry = "ok"
    THEN [raised |-> FALSE,
          info |-> [track_id |-> track_id, category |-> detection.label,
                    detection_method |-> "owlvit",
                    mask_url |-> "absent",
                    product |-> first_or_none(search_products(detection.label))]]
    ELSE [raised |-> TRUE,
          info |-> [track_id |-> track_id, category |-> detection.label,
                    detection_method |-> "none", mask_url |-> "absent",
                    product |-> "absent"]]

\* the calls one _process_tracked_object made, for the history
calls_of(o) ==
    [seg |-> 1,
     search |-> (IF o.search = "skip" THEN 0 ELSE 1) + (IF o.retry = "skip" THEN 0 ELSE 1)]

(***************************************************************************)
(* json.dump of output_data, video_processor.py:226-239: the keys of       *)
(* tracks_by_frame and object_products are ints and become strings.        *)
(***************************************************************************)
json_keys(dict) ==
    [s \in {ToString(x) : x \in DOMAIN dict} |->
        dict[CHOOSE x \in DOMAIN dict : ToString(x) = s]]

output_data(task) ==
    [video_id |-> task.video_id, fps |-> task.fps, total_frames |-> task.total_frames,
     tracks_by_frame |-> task.tracks_by_frame, object_products |-> task.object_products]

\* object_products is left out of the file
json_dump_frames_only(data) ==
    [video_id |-> data.video_id, fps |-> data.fps, total_frames |-> data.total_frames,
     tracks_by_frame |-> json_keys(data.tracks_by_frame),
     object_products |-> <<>>]

json_dump(data) ==
    [video_id |-> data.video_id, fps |-> data.fps, total_frames |-> data.total_frames,
     tracks_by_frame |-> json_keys(data.tracks_by_frame),
     object_products |-> json_keys(data.object_products)]

(***************************************************************************)
(* The Detector collaborator (grounding_dino_service.detect_products) is   *)
(* any function from frames to lists of detections; a model run fixes the  *)
(* set of lists it may return.  Boxes are one pixel high.  Near(x) is 13   *)
(* wide: Near(0) and Near(3) have IoU 5/8, Near(0) and Near(7) exactly     *)
(* 3/10.  Far covers x = 14..20: IoU 6/13 with Near(7), disjoint from      *)
(* Near(0).                                                                *)
(***************************************************************************)
Near(x) == [x |-> x, y |-> 0, width |-> 13, height |-> 1]
Far == [x |-> 14, y |-> 0, width |-> 6, height |-> 1]
DetAt(label, bbox) == [label |-> label, bbox |-> bbox, confidence |-> 90]
Det(label, x) == DetAt(label, Near(x))
AllDets == {DetAt(label, bbox) : label \in Labels, bbox \in {Near(0), Near(7), Far}}

DetectorLists(name) ==
    CASE name = "small" -> { <<>>, <<Det("cup", 0)>> }
      [] name = "menu" -> { <<>>, <<Det("cup", 0)>>, <<Det("bottle", 0)>>,
                            <<Det("cup", 3), Det("cup", 0)>> }
      [] OTHER -> UNION {[1..n -> AllDets] : n \in 0..MaxDets}

\* A detector that finds one cup whose box has moved MovingStep pixels to the right
\* every five frames.
MovingDetectors == {"moving by 0", "moving by 1", "moving by 3", "moving by 7"}
MovingStep(name) ==
    CASE name = "moving by 0" -> 0
      [] name = "moving by 1" -> 1
      [] name = "moving by 3" -> 3
      [] OTHER -> 7

\* video_processor.py:171  detections = self.grounding_dino.detect_products(frame)
detect_products(name, frame_num) ==
    IF name \in MovingDetectors
    THEN { <<Det("cup", (frame_num \div 5) * MovingStep(name))>> }
    ELSE DetectorLists(name)

(***************************************************************************)
(* The handlers of process.py.                                             *)
(***************************************************************************)
Response(op, video_id, code, body) ==
    [op |-> op, video_id |-> video_id, code |-> code, body |-> body]

\* a start_processing that never finds the record "processing"
already_processing_never(video_id) == FALSE

\* process.py:45-47  the record exists and says "processing"
already_processing(video_id) ==
    /\ video_id \in DOMAIN processing_status
    /\ processing_status[video_id].status = "processing"

\* process.py:28-64  start_processing: what it returns in the current state
start_response(video_id) ==
    IF ~videoFiles[video_id].exists
    THEN Response("start", video_id, 404, [detail |-> "Video not found"])
    ELSE IF already_processing(video_id)
    THEN Response("start", video_id, 200,
                  [message |-> "Video is already being processed",
                   status |-> processing_status[video_id]])
    ELSE Response("start", video_id, 200,
                  [message |-> "Video processing started", video_id |-> video_id])

\* the fresh record takes over the log of the record it replaces
StartProcessing_keeps_log(video_id) ==
    /\ Len(requests) < MaxStarts
    /\ IF ~videoFiles[video_id].exists
       THEN /\ requests' = Append(requests, [video_id |-> video_id, did |-> "not found"])
            /\ UNCHANGED <<videoFiles, iou_call, mask_files, detector, faults, processing_status, tracking, tasks,
                           logged>>
       ELSE IF already_processing(video_id)
       THEN /\ requests' = Append(requests, [video_id |-> video_id, did |-> "refused"])
            /\ UNCHANGED <<videoFiles, iou_call, mask_files, detector, faults, processing_status, tracking, tasks,
                           logged>>
       ELSE /\ requests' = Append(requests, [video_id |-> video_id, did |-> "started"])
            /\ processing_status' = Put(processing_status, video_id,
                    [fresh_status EXCEPT !.logs =
                        IF video_id \in DOMAIN processing_status
                        THEN processing_status[video_id].logs ELSE <<>>])
            /\ tasks' = Append(tasks, new_task(video_id))
            /\ UNCHANGED <<videoFiles, iou_call, mask_files, detector, faults, tracking, logged>>

\* process.py:28-64  start_processing: what it does
StartProcessing(video_id) ==
    /\ Len(requests) < MaxStarts
    /\ IF ~videoFiles[video_id].exists
       THEN /\ requests' = Append(requests, [video_id |-> video_id, did |-> "not found"])
            /\ UNCHANGED <<videoFiles, iou_call, mask_files, detector, faults, processing_status, tracking, tasks,
                           logged>>
       ELSE IF already_processing(video_id)
       THEN /\ requests' = Append(requests, [video_id |-> video_id, did |-> "refused"])
            /\ UNCHANGED <<videoFiles, iou_call, mask_files, detector, faults, processing_status, tracking, tasks,
                           logged>>
       ELSE /\ requests' = Append(requests, [video_id |-> video_id, did |-> "started"])
            /\ processing_status' = Put(processing_status, video_id, fresh_status)
            /\ tasks' = Append(tasks, new_task(video_id))
            /\ UNCHANGED <<videoFiles, iou_call, mask_files, detector, faults, tracking, logged>>

\* the tracking file is looked at before the registry
get_processing_status_file_first(video_id) ==
    IF tracking[video_id].kind # "absent"
    THEN Response("status", video_id, 200,
                  [status |-> "completed", progress |-> Hundred,
                   message |-> "Video processing completed", logs |-> <<>>])
    ELSE IF video_id \notin DOMAIN processing_status
    THEN Response("status", video_id, 404, [detail |-> "Video not found or not processed"])
    ELSE Response("status", video_id, 200, processing_status[video_id])

\* process.py:66-90  get_processing_status
get_processing_status(video_id) ==
    IF video_id \notin DOMAIN processing_status
    THEN IF tracking[video_id].kind # "absent"
         THEN Response("status", video_id, 200,
                       [status |-> "completed", progress |-> Hundred,
                        message |-> "Video processing completed", logs |-> <<>>])
         ELSE Response("status", video_id, 404,
                       [detail |-> "Video not found or not processed"])
    ELSE Response("status", video_id, 200, processing_status[video_id])

GetStatus(video_id) ==
    /\ get_processing_status(video_id).code \in {200, 404}
    /\ UNCHANGED vars

\* process.py:92-104  get_tracking_data; json.load raises on a truncated file
get_tracking_data(video_id) ==
    IF tracking[video_id].kind = "absent"
    THEN Response("tracking", video_id, 404, [detail |-> "Tracking data not found"])
    ELSE IF tracking[video_id].kind = "partial"
    THEN Response("tracking", video_id, 500, [detail |-> "JSONDecodeError"])
    ELSE Response("tracking", video_id, 200, tracking[video_id].data)

GetTracking(video_id) ==
    /\ get_tracking_data(video_id).code \in {200, 404, 500}
    /\ UNCHANGED vars

(***************************************************************************)
(* The steps of a background task t.                                       *)
(***************************************************************************)
StatusOf(t) == processing_status[tasks[t].video_id]

SetStatus(t, rec) ==
    processing_status' = [processing_status EXCEPT ![tasks[t].video_id] = rec]

\* the record is marked failed but the frame loop goes on
Fail_keep_running(t, task, e) ==
    /\ tasks' = [tasks EXCEPT ![t] = task]
    /\ SetStatus(t, failed_status(StatusOf(t), e))

\* process.py:136-143  an exception of process_video reaches the except branch; the
\* history of the calls of _process_tracked_object outlives the run
Fail(t, task, e) ==
    /\ tasks' = [tasks EXCEPT ![t] =
            [done_task(task.video_id) EXCEPT !.enrichments = task.enrichments]]
    /\ SetStatus(t, failed_status(StatusOf(t), e))

\* video_processor.py:141-143  the two log lines at the start of process_video
start_line(pc, video_id) ==
    IF pc = "log1" THEN "Starting video processing for " \o video_id
    ELSE "Using OWL-ViT (zero-shot detection) + SAM (segmentation) + IoU tracking"

LogStart(t) ==
    /\ tasks[t].pc \in {"log1", "log2"}
    /\ SetStatus(t, log_message(StatusOf(t), start_line(tasks[t].pc, tasks[t].video_id)))
    /\ tasks' = [tasks EXCEPT ![t].pc = IF @ = "log1" THEN "log2" ELSE "open"]
    /\ logged' = logged + 1
    /\ UNCHANGED <<videoFiles, iou_call, mask_files, detector, faults, tracking, requests>>

\* video_processor.py:145-160  open the video, read fps and the frame count
OpenVideo(t) ==
    /\ tasks[t].pc = "open"
    /\ LET src == videoFiles[tasks[t].video_id]
       IN  tasks' = [tasks EXCEPT ![t] =
                [@ EXCEPT !.pc = "read", !.opened = src.opened, !.fps = src.fps,
                          !.total_frames = src.total_frames, !.nframes = src.nframes,
                          !.sample_rate = sample_rate_of(src.fps)]]
    /\ UNCHANGED <<videoFiles, iou_call, mask_files, detector, faults, processing_status, tracking, logged, requests>>

\* video_processor.py:163-176 and 219  the head of the frame loop: the loop ends,
\* or the frame is skipped, or the detector runs on it and the tracker assigns ids
ReadFrame(t) ==
    /\ tasks[t].pc = "read"
    /\ LET task == tasks[t]
       IN  IF ~task.opened \/ task.frame_num >= task.nframes
           THEN /\ tasks' = [tasks EXCEPT ![t].pc = "write"]
                /\ UNCHANGED <<videoFiles, iou_call, mask_files, detector, faults, processing_status, tracking, logged, requests>>
           ELSE IF task.frame_num % task.sample_rate # 0
           THEN /\ tasks' = [tasks EXCEPT ![t].frame_num = @ + 1]
                /\ UNCHANGED <<videoFiles, iou_call, mask_files, detector, faults, processing_status, tracking, logged, requests>>
           ELSE \E raises \in (IF faults > 0 THEN BOOLEAN ELSE {FALSE}) :
                  IF raises
                  THEN /\ Fail(t, task, "detector failed")
                       /\ faults' = faults - 1
                       /\ UNCHANGED <<videoFiles, iou_call, mask_files, detector, tracking, logged, requests>>
                  ELSE \E found \in detect_products(detector, task.frame_num) :
                         LET a == assign_track_ids(found, task.previous_detections,
                                                   task.next_track_id)
                         IN  /\ tasks' = [tasks EXCEPT ![t] =
                                    [task EXCEPT !.pc = "dets", !.k = 1,
                                                 !.detections = a.detections,
                                                 !.next_track_id = a.next_track_id,
                                                 !.frame_detections = <<>>,
                                                 !.fresh_ids = @ \o a.fresh,
                                                 !.analyzed = Append(@,
                                                     [frame_num |-> task.frame_num,
                                                      detections |-> a.detections])]]
                             /\ UNCHANGED <<videoFiles, iou_call, mask_files, detector, faults, processing_status,
                                            tracking, logged, requests>>

\* every detection is taken for a new track
is_new_track_always(track_id, object_products) == TRUE

\* video_processor.py:193  if track_id not in object_products
is_new_track(track_id, object_products) == track_id \notin DOMAIN object_products

\* video_processor.py:180-202  one pass of the loop over the detections of the frame
TrackDetection(t) ==
    /\ tasks[t].pc = "dets"
    /\ tasks[t].k <= Len(tasks[t].detections)
    /\ LET task == tasks[t]
           detection == task.detections[task.k]
           track_id == detection.track_id
           seen == [task EXCEPT !.k = @ + 1,
                                !.frame_detections = Append(@, frame_detection_of(detection))]
       IN  IF ~is_new_track(track_id, task.object_products)
           THEN /\ tasks' = [tasks EXCEPT ![t] = seen]
                /\ UNCHANGED <<videoFiles, iou_call, mask_files, detector, faults, processing_status, tracking, logged, requests>>
           ELSE IF task.fps = 0
           THEN /\ Fail(t, seen, "float division by zero")
                /\ UNCHANGED <<videoFiles, iou_call, mask_files, detector, faults, tracking, logged, requests>>
           ELSE \E o \in EnrichOutcomes :
                  /\ o.cost <= faults
                  /\ faults' = faults - o.cost
                  /\ mask_files' = save_masks(mask_files, task.video_id, track_id,
                                              timestamp_ms(task.frame_num, task.fps), t, o)
                  /\ LET ts == timestamp_ms(task.frame_num, task.fps)
                         r == process_tracked_object(detection, track_id, task.video_id, ts, o)
                         called == [seen EXCEPT !.enrichments = Append(@,
                                       [track_id |-> track_id, frame_num |-> task.frame_num,
                                        calls |-> calls_of(o), outcome |-> o])]
                     IN  IF r.raised
                         THEN /\ Fail(t, called, "search failed")
                              /\ UNCHANGED <<videoFiles, iou_call, detector, tracking, logged, requests>>
                         ELSE /\ tasks' = [tasks EXCEPT ![t] =
                                     [called EXCEPT !.object_products =
                                         Put(@, track_id, r.info)]]
                              /\ SetStatus(t, log_message(StatusOf(t),
                                     "Track " \o ToString(track_id) \o ": " \o detection.label
                                       \o " [OWL-ViT + SAM] -> " \o r.info.category))
                              /\ logged' = logged + 1
                              /\ UNCHANGED <<videoFiles, iou_call, detector, tracking, requests>>

\* previous_detections survives a frame without detections
next_previous_keep(previous_detections, detections) ==
    IF detections = <<>> THEN previous_detections ELSE detections

\* video_processor.py:209  previous_detections = detections
next_previous(previous_detections, detections) == detections

\* video_processor.py:204-219  the frame is stored and the progress reported
StoreFrame(t) ==
    /\ tasks[t].pc = "dets"
    /\ tasks[t].k > Len(tasks[t].detections)
    /\ LET task == tasks[t]
       IN  IF task.fps = 0
           THEN /\ Fail(t, task, "float division by zero")
                /\ UNCHANGED <<videoFiles, iou_call, mask_files, detector, faults, tracking, logged, requests>>
           ELSE LET ts == timestamp_ms(task.frame_num, task.fps)
                    stored == [task EXCEPT
                        !.tracks_by_frame = Put(@, ts, task.frame_detections),
                        !.previous_detections = next_previous(@, task.detections),
                        !.processed_frames = @ + 1]
                IN  IF task.total_frames = 0
                    THEN /\ Fail(t, stored, "division by zero")
                         /\ UNCHANGED <<videoFiles, iou_call, mask_files, detector, faults, tracking, logged, requests>>
                    ELSE /\ tasks' = [tasks EXCEPT ![t] =
                                [stored EXCEPT !.pc = "read", !.frame_num = @ + 1]]
                         /\ SetStatus(t, update_progress(StatusOf(t),
                                Frac(task.frame_num * 100, task.total_frames),
                                "Processing frame " \o ToString(task.frame_num) \o "/"
                                  \o ToString(task.total_frames) \o " - Found "
                                  \o ToString(Len(task.detections)) \o " objects"))
                         /\ UNCHANGED <<videoFiles, iou_call, mask_files, detector, faults, tracking, logged, requests>>

\* video_processor.py:221-241  the tracking file is written: open(path, 'w') truncates
\* it, json.dump fills it; either may raise
WriteOutcomes == {"ok", "open raises", "dump raises"}

\* process_video returns without writing the tracking file
WriteArtifact_skipped(t) ==
    /\ tasks[t].pc = "write"
    /\ tasks' = [tasks EXCEPT ![t].pc = "complete"]
    /\ UNCHANGED <<videoFiles, iou_call, mask_files, detector, faults, processing_status, tracking, logged,
                   requests>>

\* the tracking file is updated instead of replaced: the entries of the stored
\* artifact that the run does not write again stay in it
WriteArtifact_merged(t) ==
    /\ tasks[t].pc = "write"
    /\ LET task == tasks[t]
           new == json_dump(output_data(task))
           old == tracking[task.video_id]
           both(a, b) == [x \in DOMAIN a \cup DOMAIN b |-> IF x \in DOMAIN b THEN b[x] ELSE a[x]]
       IN  tracking' = [tracking EXCEPT ![task.video_id] =
               IF old.kind = "json"
               THEN [kind |-> "json",
                     data |-> [new EXCEPT
                         !.tracks_by_frame = both(old.data.tracks_by_frame, @),
                         !.object_products = both(old.data.object_products, @)]]
               ELSE [kind |-> "json", data |-> new]]
    /\ tasks' = [tasks EXCEPT ![t].pc = "complete"]
    /\ UNCHANGED <<videoFiles, iou_call, mask_files, detector, faults, processing_status, logged, requests>>

WriteArtifact(t) ==
    /\ tasks[t].pc = "write"
    /\ LET task == tasks[t]
       IN  \E w \in (IF faults > 0 THEN WriteOutcomes ELSE {"ok"}) :
             IF w = "ok"
             THEN /\ tracking' = [tracking EXCEPT ![task.video_id] =
                         [kind |-> "json", data |-> json_dump(output_data(task))]]
                  /\ tasks' = [tasks EXCEPT ![t].pc = "complete"]
                  /\ UNCHANGED <<videoFiles, iou_call, mask_files, detector, faults, processing_status, logged, requests>>
             ELSE /\ tracking' = IF w = "open raises" THEN tracking
                                 ELSE [tracking EXCEPT ![task.video_id] =
                                          [kind |-> "partial", data |-> <<>>]]
                  /\ Fail(t, task, "write failed")
                  /\ faults' = faults - 1
                  /\ UNCHANGED <<videoFiles, iou_call, mask_files, detector, logged, requests>>

\* process_video returned and the record is left as it is
Complete_silent(t) ==
    /\ tasks[t].pc = "complete"
    /\ tasks' = [tasks EXCEPT ![t] = done_task(tasks[t].video_id)]
    /\ UNCHANGED <<videoFiles, iou_call, mask_files, detector, faults, processing_status, tracking, logged, requests>>

\* process.py:128-134  process_video returned
Complete(t) ==
    /\ tasks[t].pc = "complete"
    /\ tasks' = [tasks EXCEPT ![t] = done_task(tasks[t].video_id)]
    /\ SetStatus(t, complete_status(StatusOf(t)))
    /\ UNCHANGED <<videoFiles, iou_call, mask_files, detector, faults, tracking, logged, requests>>

Next ==
    \/ \E video_id \in Videos : StartProcessing(video_id)
    \/ \E video_id \in Videos : GetStatus(video_id)
    \/ \E video_id \in Videos : GetTracking(video_id)
    \/ \E t \in DOMAIN tasks : LogStart(t)
    \/ \E t \in DOMAIN tasks : OpenVideo(t)
    \/ \E t \in DOMAIN tasks : ReadFrame(t)
    \/ \E t \in DOMAIN tasks : TrackDetection(t)
    \/ \E t \in DOMAIN tasks : StoreFrame(t)
    \/ \E t \in DOMAIN tasks : WriteArtifact(t)
    \/ \E t \in DOMAIN tasks : Complete(t)

(***************************************************************************)
(* Initial states.  The registry is empty when the module is imported;     *)
(* the storage directory holds what earlier server processes left.         *)
(***************************************************************************)
OldArtifact ==
    [kind |-> "json",
     data |-> [video_id |-> "old", fps |-> 2, total_frames |-> 1,
               tracks_by_frame |-> <<>>, object_products |-> <<>>]]

Storage(files) ==
    /\ videoFiles = files
    /\ tracking = [v \in Videos |-> IF v = "v1" THEN NoArtifact ELSE OldArtifact]
    /\ processing_status = <<>>
    /\ tasks = <<>>
    /\ logged = 0
    /\ iou_call = NoCall
    /\ mask_files = NoMasks
    /\ faults = MaxFaults

\* The service with two videos to process and a third id without a video file.
Init ==
    /\ \E second \in {Unreadable, Source(4, 2, 2)} :
          Storage([v \in Videos |->
              CASE v = "v1" -> Source(2, 2, 2)
                [] v = "v2" -> second
                [] OTHER -> NoFile])
    /\ detector = "small"
    /\ requests = <<>>

Spec == Init /\ [][Next]_vars

\* One run of one video of MaxFrames frames, with a richer detector: all start calls
\* but one were spent on an id that has no video file.
InitJob ==
    /\ \E fps \in {2, 4} :
          Storage([v \in Videos |->
              IF v = "v1" THEN Source(fps, MaxFrames, MaxFrames) ELSE NoFile])
    /\ detector = "menu"
    /\ requests = [i \in 1..(MaxStarts - 1) |-> [video_id |-> "v3", did |-> "not found"]]

SpecJob == InitJob /\ [][Next]_vars

\* The same run with collaborators that may fail once more: both calls of one
\* _process_tracked_object can raise.
InitEnrich ==
    /\ videoFiles = [v \in Videos |-> IF v = "v1" THEN Source(2, MaxFrames, MaxFrames) ELSE NoFile]
    /\ tracking = [v \in Videos |-> NoArtifact]
    /\ processing_status = <<>>
    /\ tasks = <<>>
    /\ logged = 0
    /\ iou_call = NoCall
    /\ mask_files = NoMasks
    /\ faults = MaxFaults + 1
    /\ detector = "menu"
    /\ requests = [i \in 1..(MaxStarts - 1) |-> [video_id |-> "v3", did |-> "not found"]]

SpecEnrich == InitEnrich /\ [][Next]_vars

\* One run of a 10-fps source of 20 frames in which one cup moves to the right.
InitMoving ==
    /\ videoFiles = [v \in Videos |-> IF v = "v1" THEN Source(10, 20, 20) ELSE NoFile]
    /\ tracking = [v \in Videos |-> NoArtifact]
    /\ processing_status = <<>>
    /\ tasks = <<>>
    /\ logged = 0
    /\ iou_call = NoCall
    /\ mask_files = NoMasks
    /\ faults = 0
    /\ detector \in MovingDetectors
    /\ requests = [i \in 1..(MaxStarts - 1) |-> [video_id |-> "v3", did |-> "not found"]]

SpecMoving == InitMoving /\ [][Next]_vars

\* One run of a source of any frame rate up to MaxFps, long enough to be sampled twice
\* at the largest step.
InitRate ==
    /\ \E fps \in 0..MaxFps :
          videoFiles = [v \in Videos |->
              IF v = "v1" THEN Source(fps, MaxFps + 1, MaxFps + 1) ELSE NoFile]
    /\ tracking = [v \in Videos |-> NoArtifact]
    /\ processing_status = <<>>
    /\ tasks = <<>>
    /\ logged = 0
    /\ iou_call = NoCall
    /\ mask_files = NoMasks
    /\ faults = 0
    /\ detector \in {"moving by 0", "moving by 7"}
    /\ requests = [i \in 1..(MaxStarts - 1) |-> [video_id |-> "v3", did |-> "not found"]]

SpecRate == InitRate /\ [][Next]_vars

\* One run of a source that yields MaxFrames frames and reports any frame count up
\* to that: CAP_PROP_FRAME_COUNT is what the container header says.
InitCount ==
    /\ \E total_frames \in 0..MaxFrames :
          videoFiles = [v \in Videos |->
              IF v = "v1" THEN Source(2, total_frames, MaxFrames) ELSE NoFile]
    /\ tracking = [v \in Videos |-> NoArtifact]
    /\ processing_status = <<>>
    /\ tasks = <<>>
    /\ logged = 0
    /\ iou_call = NoCall
    /\ mask_files = NoMasks
    /\ faults = 0
    /\ detector = "small"
    /\ requests = [i \in 1..(MaxStarts - 1) |-> [video_id |-> "v3", did |-> "not found"]]

SpecCount == InitCount /\ [][Next]_vars

(***************************************************************************)
(* The tracker alone: one call of _assign_track_ids from any tracker state *)
(* within the bounds.  The previous tracks carry distinct ids below the    *)
(* counter, in rising or falling order.                                    *)
(***************************************************************************)
TrackerTask(dets, falling) ==
    [new_task("v1") EXCEPT
        !.pc = "read", !.opened = TRUE, !.fps = 2, !.total_frames = 2, !.nframes = 2,
        !.frame_num = 1, !.processed_frames = 1,
        !.next_track_id = Len(dets) + 1,
        !.previous_detections =
            [i \in DOMAIN dets |->
                WithTrack(dets[i], IF falling THEN Len(dets) + 1 - i ELSE i)]]

InitTracker ==
    /\ videoFiles = [v \in Videos |-> IF v = "v1" THEN Source(2, 2, 2) ELSE NoFile]
    /\ tracking = [v \in Videos |-> NoArtifact]
    /\ processing_status = Put(<<>>, "v1", fresh_status)
    /\ \E dets \in DetectorLists("any"), falling \in BOOLEAN : tasks = <<TrackerTask(dets, falling)>>
    /\ detector = "any"
    /\ logged = 0
    /\ iou_call = NoCall
    /\ mask_files = NoMasks
    /\ faults = 0
    /\ requests = <<[video_id |-> "v1", did |-> "started"]>>

NextTracker == \E t \in DOMAIN tasks : ReadFrame(t)

SpecTracker == InitTracker /\ [][NextTracker]_vars

(***************************************************************************)
(* The log alone: log_message called MaxAppend times on the record of a    *)
(* job that start_processing has just registered, with numbered lines.     *)
(***************************************************************************)
InitLog ==
    /\ videoFiles = [v \in Videos |-> IF v = "v1" THEN Source(2, 2, 2) ELSE NoFile]
    /\ tracking = [v \in Videos |-> NoArtifact]
    /\ processing_status = Put(<<>>, "v1", fresh_status)
    /\ tasks = <<new_task("v1")>>
    /\ detector = "small"
    /\ logged = 0
    /\ iou_call = NoCall
    /\ mask_files = NoMasks
    /\ faults = 0
    /\ requests = <<[video_id |-> "v1", did |-> "started"]>>

\* process.py:120-126  one call of log_callback
LogLine ==
    /\ logged < MaxAppend
    /\ processing_status' = [processing_status EXCEPT
            !["v1"] = log_message(@, "line " \o ToString(logged + 1))]
    /\ logged' = logged + 1
    /\ UNCHANGED <<videoFiles, iou_call, mask_files, detector, faults, tracking, tasks, requests>>

SpecLog == InitLog /\ [][LogLine]_vars

(***************************************************************************)
(* Properties.                                                             *)
(***************************************************************************)
Terminal == {"completed", "failed"}
Range(seq) == {seq[i] : i \in DOMAIN seq}
RunsOf(video_id) == {t \in DOMAIN tasks : tasks[t].video_id = video_id /\ Running(t)}
IsProcessing(video_id) ==
    /\ video_id \in DOMAIN processing_status
    /\ processing_status[video_id].status = "processing"
\* the step is a call start_processing(video_id)
StartStep(video_id) ==
    /\ Len(requests') = Len(requests) + 1
    /\ requests'[Len(requests')].video_id = video_id
TrackIds(detections) == {detections[i].track_id : i \in DOMAIN detections}

\* C1: at most one pipeline run is active per video_id, the record of a running
\* pipeline says "processing", and a start_processing call made while the record
\* says "processing" changes neither the record nor the tasks.
C1_SingleFlight ==
    /\ [](\A v \in Videos : /\ Cardinality(RunsOf(v)) <= 1
                            /\ RunsOf(v) # {} => IsProcessing(v))
    /\ [][\A v \in Videos :
            (StartStep(v) /\ IsProcessing(v)) =>
                /\ tasks' = tasks
                /\ processing_status' = processing_status
                /\ requests'[Len(requests')].did = "refused"]_vars

\* C1 witness: a start_processing call was refused while the run of its video goes on.
C1_Witness ==
    \E i \in DOMAIN requests :
        /\ requests[i].did = "refused"
        /\ RunsOf(requests[i].video_id) # {}

\* the track ids of the detections the frame loop of a task has passed so far
PassedIds(task) ==
    UNION {TrackIds(task.analyzed[i].detections) : i \in 1..(Len(task.analyzed) - 1)}
      \cup (IF task.pc = "dets"
            THEN {task.detections[i].track_id : i \in 1..(task.k - 1)}
            ELSE IF Len(task.analyzed) > 0
                 THEN TrackIds(task.analyzed[Len(task.analyzed)].detections)
                 ELSE {})

\* the first analyzed frame holding track_id
FirstFrameOf(task, track_id) ==
    LET i == CHOOSE i \in DOMAIN task.analyzed :
                /\ track_id \in TrackIds(task.analyzed[i].detections)
                /\ \A j \in 1..(i - 1) : track_id \notin TrackIds(task.analyzed[j].detections)
    IN  task.analyzed[i].frame_num

\* C2: within a job, _process_tracked_object is called exactly once for every track id
\* the frame loop has passed, in the first analyzed frame that holds the id, and an
\* entry of object_products never changes once stored.
C2_EnrichOnce ==
    /\ [](\A t \in DOMAIN tasks :
            LET task == tasks[t]
            IN  Running(t) =>
                /\ \A i, j \in DOMAIN task.enrichments :
                      task.enrichments[i].track_id = task.enrichments[j].track_id => i = j
                /\ {task.enrichments[i].track_id : i \in DOMAIN task.enrichments}
                      = PassedIds(task)
                /\ DOMAIN task.object_products = PassedIds(task)
                /\ \A i \in DOMAIN task.enrichments :
                      task.enrichments[i].frame_num
                          = FirstFrameOf(task, task.enrichments[i].track_id))
    /\ [][\A t \in DOMAIN tasks :
            Running(t)' =>
                \A id \in DOMAIN tasks[t].object_products :
                    /\ id \in DOMAIN tasks'[t].object_products
                    /\ tasks'[t].object_products[id] = tasks[t].object_products[id]]_vars

\* C2 witness: track 1 was in two analyzed frames and both have been passed.
C2_Witness ==
    \E t \in DOMAIN tasks :
        /\ tasks[t].pc = "read"
        /\ Len(tasks[t].analyzed) >= 2
        /\ 1 \in TrackIds(tasks[t].analyzed[1].detections)
        /\ 1 \in TrackIds(tasks[t].analyzed[2].detections)
        /\ Len(tasks[t].enrichments) = 1

\* C3: within a job the ids taken from the counter are positive, start at 1 and are
\* strictly increasing in the order they are taken, every id given to a detection is
\* below the counter, and the counter never decreases.
C3_FreshIdsIncrease ==
    /\ [](\A t \in DOMAIN tasks :
            LET task == tasks[t]
            IN  Running(t) =>
                /\ \A i \in DOMAIN task.fresh_ids : task.fresh_ids[i] >= 1
                /\ Len(task.fresh_ids) > 0 => task.fresh_ids[1] = 1
                /\ \A i, j \in DOMAIN task.fresh_ids :
                      i < j => task.fresh_ids[i] < task.fresh_ids[j]
                /\ \A i \in DOMAIN task.fresh_ids : task.fresh_ids[i] < task.next_track_id
                /\ \A i \in DOMAIN task.analyzed :
                      TrackIds(task.analyzed[i].detections) \subseteq Range(task.fresh_ids))
    /\ [][\A t \in DOMAIN tasks :
            Running(t)' => tasks'[t].next_track_id >= tasks[t].next_track_id]_vars

\* C3 witness: ids were taken from the counter in two frames, two of them in one frame,
\* with a frame without detections in between.
C3_Witness ==
    \E t \in DOMAIN tasks :
        /\ Len(tasks[t].analyzed) = 3
        /\ tasks[t].analyzed[2].detections = <<>>
        /\ Len(tasks[t].analyzed[3].detections) = 2
        /\ tasks[t].fresh_ids = <<1, 2, 3>>

\* C4: after every analyzed frame previous_detections is exactly the list of that
\* frame's detections, and a track id absent from one analyzed frame is in no later one.
C4_NoGapTolerance ==
    \A t \in DOMAIN tasks :
        LET task == tasks[t]
            n == Len(task.analyzed)
        IN  Running(t) =>
            /\ (task.pc \in {"read", "write", "complete"} /\ n > 0)
                   => task.previous_detections = task.analyzed[n].detections
            /\ \A i, j, k \in 1..n :
                  (i < j /\ j < k) =>
                      (TrackIds(task.analyzed[i].detections)
                         \cap TrackIds(task.analyzed[k].detections))
                        \subseteq TrackIds(task.analyzed[j].detections)

\* C4 witness: a cup is seen, then a frame has no detection, then the same cup at the
\* same place gets another id.
C4_Witness ==
    \E t \in DOMAIN tasks :
        /\ tasks[t].pc = "read"
        /\ Len(tasks[t].analyzed) = 3
        /\ tasks[t].analyzed[1].detections = <<WithTrack(Det("cup", 0), 1)>>
        /\ tasks[t].analyzed[2].detections = <<>>
        /\ tasks[t].analyzed[3].detections = <<WithTrack(Det("cup", 0), 2)>>

\* C5: a detection never gets the track id of a previous track with another label,
\* whatever the boxes; when every previous track of its label has been taken by an
\* earlier detection of the call (or there is none), it gets an id from the counter.
C5_LabelSticky ==
    \A t \in DOMAIN tasks :
        LET task == tasks[t]
            prev == task.previous_detections
        IN  task.pc = "dets" =>
            \A i \in DOMAIN task.detections :
                LET d == task.detections[i]
                IN  /\ \A j \in DOMAIN prev :
                          prev[j].track_id = d.track_id => prev[j].label = d.label
                    /\ (\A j \in DOMAIN prev :
                          prev[j].label = d.label =>
                              \E h \in 1..(i - 1) :
                                  task.detections[h].track_id = prev[j].track_id)
                       => /\ d.track_id \in Range(task.fresh_ids)
                          /\ d.track_id \notin TrackIds(prev)

\* C5 witness: a bottle in exactly the box of the previous cup 1 got the new id 2.
C5_Witness ==
    \E t \in DOMAIN tasks :
        /\ tasks[t].pc = "dets"
        /\ tasks[t].previous_detections = <<WithTrack(Det("cup", 0), 1)>>
        /\ tasks[t].detections = <<WithTrack(Det("bottle", 0), 2)>>

\* C6: a record never leaves the registry; a completed or failed record changes only
\* when a start_processing call for its video_id replaces it by the fresh record, and
\* only such a call makes a record "processing" again.
C6_TerminalIsFinal ==
    [][\A v \in DOMAIN processing_status :
          /\ v \in DOMAIN processing_status'
          /\ processing_status[v].status \in {"processing", "completed", "failed"}
          /\ processing_status[v].status \in Terminal =>
                \/ processing_status'[v] = processing_status[v]
                \/ /\ StartStep(v)
                   /\ processing_status'[v] =
                         [status |-> "processing", progress |-> Zero,
                          message |-> "Starting video processing...", logs |-> <<>>]]_vars

\* C6 witness: the first run of v1 ended with a log, a second start_processing
\* replaced its record, and the second run is under way.
C6_Witness ==
    /\ Len(tasks) = 2
    /\ tasks[1].pc = "done"
    /\ tasks[2].pc = "read"
    /\ tasks[2].video_id = "v1"
    /\ \A i \in DOMAIN requests : requests[i] = [video_id |-> "v1", did |-> "started"]
    /\ Len(processing_status["v1"].logs) = 2

\* C7: get_processing_status returns the record of the registry whenever there is one;
\* without a record it reports completed with progress 100 when a tracking file
\* exists, and 404 when none exists.
C7_Query ==
    \A v \in Videos :
        LET r == get_processing_status(v)
        IN  /\ v \in DOMAIN processing_status =>
                /\ r.code = 200
                /\ r.body = processing_status[v]
            /\ (v \notin DOMAIN processing_status /\ tracking[v].kind # "absent") =>
                /\ r.code = 200
                /\ r.body.status = "completed"
                /\ r.body.progress = Frac(100, 1)
            /\ (v \notin DOMAIN processing_status /\ tracking[v].kind = "absent") =>
                r.code = 404

\* C7 witness: v2 has a record that is not completed and an older tracking file, v3
\* has a tracking file and no record, v1 has neither.
C7_Witness ==
    /\ "v2" \in DOMAIN processing_status
    /\ processing_status["v2"].status = "processing"
    /\ tracking["v2"].kind = "json"
    /\ "v3" \notin DOMAIN processing_status
    /\ tracking["v3"].kind = "json"
    /\ "v1" \notin DOMAIN processing_status
    /\ tracking["v1"].kind = "absent"

\* C8: a log never holds more than 50 lines; a call of log_message on a log of 50
\* lines drops exactly the oldest line and puts the new line last, a call on a
\* shorter log only appends.
C8_LogFifo ==
    /\ [](\A v \in DOMAIN processing_status : Len(processing_status[v].logs) <= 50)
    /\ [][\A v \in DOMAIN processing_status :
            LET old == processing_status[v].logs
                new == processing_status'[v].logs
            IN  logged' = logged + 1 =>
                /\ Len(new) >= 1
                /\ new[Len(new)] = "line " \o ToString(logged')
                /\ Len(old) < 50 => SubSeq(new, 1, Len(new) - 1) = old
                /\ Len(old) = 50 => SubSeq(new, 1, Len(new) - 1) = Tail(old)]_vars

\* C8 witness: the 51st line was appended; the log runs from line 2 to line 51.
C8_Witness ==
    /\ logged = 51
    /\ Len(processing_status["v1"].logs) = 50
    /\ processing_status["v1"].logs[1] = "line 2"
    /\ processing_status["v1"].logs[50] = "line 51"

\* C9: the step that makes a record completed sets progress 100 and the success
\* message and leaves the log as it was.
C9_Complete ==
    [][\A v \in DOMAIN processing_status :
          (processing_status[v].status = "processing"
             /\ processing_status'[v].status = "completed") =>
              /\ processing_status'[v].progress = Frac(100, 1)
              /\ processing_status'[v].message = "Video processing completed successfully"
              /\ processing_status'[v].logs = processing_status[v].logs]_vars

\* C9 witness: a run completed with the two start lines and one track line in its log.
C9_Witness ==
    \E v \in DOMAIN processing_status :
        /\ processing_status[v].status = "completed"
        /\ Len(processing_status[v].logs) = 3

ErrorTexts ==
    {"detector failed", "search failed", "write failed", "float division by zero",
     "division by zero"}

\* C10: the step that makes a record failed sets progress 0 and a message holding the
\* error text and leaves the log as it was; get_processing_status of a failed record
\* returns that log.
C10_Fail ==
    /\ [][\A v \in DOMAIN processing_status :
            (processing_status[v].status = "processing"
               /\ processing_status'[v].status = "failed") =>
                /\ processing_status'[v].progress = Frac(0, 1)
                /\ \E e \in ErrorTexts :
                      processing_status'[v].message = "Processing failed: " \o e
                /\ processing_status'[v].logs = processing_status[v].logs]_vars
    /\ [](\A v \in DOMAIN processing_status :
            processing_status[v].status = "failed" =>
                get_processing_status(v).body.logs = processing_status[v].logs)

\* C10 witness: a run failed after a track had been logged.
C10_Witness ==
    \E v \in DOMAIN processing_status :
        /\ processing_status[v].status = "failed"
        /\ Len(processing_status[v].logs) = 3

\* C11: a job whose video source cannot be opened ends failed, is never completed,
\* and writes no tracking file.
C11_OpenFailureFails ==
    /\ [](\A t \in DOMAIN tasks :
            LET v == tasks[t].video_id
            IN  (videoFiles[v] = Unreadable /\ RunsOf(v) = {}) =>
                    processing_status[v].status = "failed")
    /\ [][\A v \in Videos :
            videoFiles[v] = Unreadable => tracking'[v] = tracking[v]]_vars

\* C11: the run of the unreadable v2 is over: its record is completed and the
\* tracking file of v2 was replaced by one without any frame.
C11_Witness ==
    /\ videoFiles["v2"] = Unreadable
    /\ "v2" \in DOMAIN processing_status
    /\ processing_status["v2"].status = "completed"
    /\ tracking["v2"].kind = "json"
    /\ tracking["v2"].data.video_id = "v2"
    /\ tracking["v2"].data.tracks_by_frame = <<>>

\* the step is the detector raising in the run of task t
DetectorRaises(t) ==
    /\ tasks[t].pc = "read"
    /\ tasks'[t] # tasks[t]
    /\ faults' < faults

\* C12: when the detector raises on an analyzed frame the job goes on with the
\* next frames and its record stays "processing".
C12_DetectorFailureRecovered ==
    [][\A t \in DOMAIN tasks :
          DetectorRaises(t) =>
              /\ tasks'[t].pc # "done"
              /\ processing_status'[tasks[t].video_id].status = "processing"]_vars

\* C12: a run ended by the detector: nothing of the video was stored, the record
\* is failed with the detector's error.
C12_Witness ==
    \E t \in DOMAIN tasks :
        /\ tasks[t].pc = "done"
        /\ processing_status[tasks[t].video_id].status = "failed"
        /\ processing_status[tasks[t].video_id].message = "Processing failed: detector failed"
        /\ tracking["v1"].kind = "absent"

\* the step is one call of _process_tracked_object in the run of task t
EnrichStep(t) ==
    /\ tasks[t].pc = "dets"
    /\ Len(tasks'[t].enrichments) = Len(tasks[t].enrichments) + 1

\* the call made in that step
LastCall(t) == tasks'[t].enrichments[Len(tasks'[t].enrichments)]

\* C13: when search_products raises during the enrichment of a track, the entry of
\* the track is stored with no product, search_products was called once for the
\* track, and the record stays "processing".
C13_SearchFailureAbsorbed ==
    [][\A t \in DOMAIN tasks :
          (EnrichStep(t) /\ LastCall(t).outcome.search = "raise") =>
              /\ processing_status'[tasks[t].video_id].status = "processing"
              /\ LastCall(t).track_id \in DOMAIN tasks'[t].object_products
              /\ tasks'[t].object_products[LastCall(t).track_id].product \in {"null", "absent"}
              /\ LastCall(t).calls.search = 1]_vars

\* C13: search_products raised for track 1 and was called again; the entry of the
\* track holds the product of the second call.
C13_Witness ==
    \E t \in DOMAIN tasks :
        /\ Len(tasks[t].enrichments) = 1
        /\ tasks[t].enrichments[1].outcome.search = "raise"
        /\ tasks[t].enrichments[1].calls.search = 2
        /\ 1 \in DOMAIN tasks[t].object_products
        /\ tasks[t].object_products[1].product = "product-cup-0"

\* C14: when segment_with_box raises during the enrichment of a track, the entry of
\* the track is stored with detection_method "owlvit", without mask_url and with
\* the product of the search; segment_with_box was called once and the record stays
\* "processing".
C14_SegmenterFailureAbsorbed ==
    [][\A t \in DOMAIN tasks :
          (EnrichStep(t) /\ LastCall(t).outcome.seg = "raise") =>
              LET id == LastCall(t).track_id
              IN  /\ processing_status'[tasks[t].video_id].status = "processing"
                  /\ id \in DOMAIN tasks'[t].object_products
                  /\ tasks'[t].object_products[id].detection_method = "owlvit"
                  /\ tasks'[t].object_products[id].mask_url = "absent"
                  /\ tasks'[t].object_products[id].product =
                        first_or_none(search_products(tasks'[t].object_products[id].category))
                  /\ LastCall(t).calls.seg = 1]_vars

\* C14: segment_with_box raised and so did the search of the fallback: the run is
\* over, the record is failed.
C14_Witness ==
    \E t \in DOMAIN tasks :
        /\ tasks[t].pc = "done"
        /\ Len(tasks[t].enrichments) >= 1
        /\ tasks[t].enrichments[Len(tasks[t].enrichments)].outcome.seg = "raise"
        /\ tasks[t].enrichments[Len(tasks[t].enrichments)].outcome.retry = "raise"
        /\ processing_status[tasks[t].video_id].status = "failed"

\* segment_with_box raised and the search of the fallback answered: the entry is
\* the downgraded one and the run goes on.
SegmenterOnlyDowngrades ==
    [][\A t \in DOMAIN tasks :
          (EnrichStep(t) /\ LastCall(t).outcome.seg = "raise"
              /\ LastCall(t).outcome.retry = "ok") =>
              LET id == LastCall(t).track_id
              IN  /\ processing_status'[tasks[t].video_id].status = "processing"
                  /\ tasks'[t].object_products[id].detection_method = "owlvit"
                  /\ tasks'[t].object_products[id].mask_url = "absent"
                  /\ LastCall(t).calls = [seg |-> 1, search |-> 1]]_vars

\* the message process_video reports with the progress of frame frame_num
progress_message(frame_num, total_frames, found) ==
    "Processing frame " \o ToString(frame_num) \o "/" \o ToString(total_frames)
        \o " - Found " \o ToString(found) \o " objects"

\* C15: every record get_processing_status can return is the result of whole
\* operations: completed goes with progress 100 and the success message, failed with
\* progress 0 and a failure message, and a processing record holds either the fresh
\* progress and message of start_processing or the progress of a frame with the
\* message of that same frame.
C15_NoTornRecord ==
    \A v \in DOMAIN processing_status :
        LET r == get_processing_status(v).body
            total == videoFiles[v].total_frames
        IN  /\ r.status = "completed" =>
                /\ r.progress = Frac(100, 1)
                /\ r.message = "Video processing completed successfully"
            /\ r.status = "failed" =>
                /\ r.progress = Frac(0, 1)
                /\ \E e \in ErrorTexts : r.message = "Processing failed: " \o e
            /\ r.status = "processing" =>
                \/ /\ r.progress = Frac(0, 1)
                   /\ r.message = "Starting video processing..."
                \/ /\ total > 0
                   /\ \E n \in 0..videoFiles[v].nframes, found \in 0..MaxDets :
                        /\ r.progress = Frac(n * 100, total)
                        /\ r.message = progress_message(n, total, found)

\* C15 witness: the second frame of v1 was reported: progress 50 with its message,
\* and the log of the run beside it.
C15_Witness ==
    /\ "v1" \in DOMAIN processing_status
    /\ processing_status["v1"].status = "processing"
    /\ processing_status["v1"].progress = Frac(50, 1)
    /\ processing_status["v1"].message = progress_message(1, 2, 1)
    /\ Len(processing_status["v1"].logs) = 3

\* C16: at every moment get_tracking_data returns a complete artifact or not-found,
\* and a write that does not succeed leaves the previous artifact in place.
C16_AtomicReplace ==
    /\ [](\A v \in Videos : get_tracking_data(v).code \in {200, 404})
    /\ [][\A v \in Videos :
            tracking'[v] # tracking[v] =>
                /\ tracking'[v].kind = "json"
                /\ tracking'[v].data.video_id = v]_vars

\* C16: json.dump raised while the tracking file of v2 was being rewritten: the
\* older artifact is gone and get_tracking_data fails on what is left.
C16_Witness ==
    /\ tracking["v2"].kind = "partial"
    /\ get_tracking_data("v2").code = 500
    /\ processing_status["v2"].status = "failed"

\* the keys of a dict of process_video: Python ints (video_processor.py:198, 206)
py_keys(dict) == {[type |-> "int", repr |-> ToString(x)] : x \in DOMAIN dict}

\* the keys of an object json.load returns: Python strs
json_load_keys(object) == {[type |-> "str", repr |-> s] : s \in DOMAIN object}

\* the value the run of task t handed to json.dump, and what get_tracking_data
\* returns for its video_id
Written(t) == output_data(tasks[t])
ReadBack(t) == get_tracking_data(tasks[t].video_id).body

\* fields and entries of the artifact whose comparison does not involve a key
SameContent(t) ==
    /\ get_tracking_data(tasks[t].video_id).code = 200
    /\ ReadBack(t).video_id = Written(t).video_id
    /\ ReadBack(t).fps = Written(t).fps
    /\ ReadBack(t).total_frames = Written(t).total_frames
    /\ \A ts \in DOMAIN Written(t).tracks_by_frame :
          /\ ToString(ts) \in DOMAIN ReadBack(t).tracks_by_frame
          /\ ReadBack(t).tracks_by_frame[ToString(ts)] = Written(t).tracks_by_frame[ts]
    /\ \A id \in DOMAIN Written(t).object_products :
          /\ ToString(id) \in DOMAIN ReadBack(t).object_products
          /\ ReadBack(t).object_products[ToString(id)] = Written(t).object_products[id]

\* C17 as stated: after the write of a run succeeded, get_tracking_data returns a
\* value equal to the one written, with the same timestamp keys and track_id keys.
C17_RoundTrip ==
    \A t \in DOMAIN tasks :
        tasks[t].pc = "complete" =>
            /\ SameContent(t)
            /\ json_load_keys(ReadBack(t).tracks_by_frame) = py_keys(Written(t).tracks_by_frame)
            /\ json_load_keys(ReadBack(t).object_products) = py_keys(Written(t).object_products)

\* C17 amended: after the write of a run succeeded, get_tracking_data returns the
\* value written with every int key of tracks_by_frame and object_products replaced
\* by its decimal string: as many keys as were written, each the string of one of
\* them, with the same entry; video_id, fps and total_frames are equal.
C17_RoundTripStringKeys ==
    \A t \in DOMAIN tasks :
        tasks[t].pc = "complete" =>
            /\ SameContent(t)
            /\ \A k \in json_load_keys(ReadBack(t).tracks_by_frame) \cup
                        json_load_keys(ReadBack(t).object_products) : k.type = "str"
            /\ {k.repr : k \in json_load_keys(ReadBack(t).tracks_by_frame)}
                  = {k.repr : k \in py_keys(Written(t).tracks_by_frame)}
            /\ {k.repr : k \in json_load_keys(ReadBack(t).object_products)}
                  = {k.repr : k \in py_keys(Written(t).object_products)}
            /\ Cardinality(DOMAIN ReadBack(t).tracks_by_frame)
                  = Cardinality(DOMAIN Written(t).tracks_by_frame)
            /\ Cardinality(DOMAIN ReadBack(t).object_products)
                  = Cardinality(DOMAIN Written(t).object_products)

\* C17 witness: a run with two analyzed frames and two tracks wrote its artifact.
C17_Witness ==
    \E t \in DOMAIN tasks :
        /\ tasks[t].pc = "complete"
        /\ Cardinality(DOMAIN tasks[t].tracks_by_frame) >= 2
        /\ Cardinality(DOMAIN tasks[t].object_products) >= 2
        /\ tracking[tasks[t].video_id].kind = "json"

\* the frame numbers the run of a task has analyzed, in order
AnalyzedFrames(task) == [i \in DOMAIN task.analyzed |-> task.analyzed[i].frame_num]

\* the single box of every analyzed frame overlaps the box of the analyzed frame
\* before it with an IoU above 0.3
MovesSmoothly(task) ==
    \A i \in 2..Len(task.analyzed) :
        FracGt(calculate_iou(task.analyzed[i - 1].detections[1].bbox,
                             task.analyzed[i].detections[1].bbox), Frac(3, 10))

\* C18: a 10-fps source of 20 frames with one detection per frame: when the frame
\* loop is over, exactly frames 0, 5, 10 and 15 were analyzed and the artifact holds
\* 4 frame entries; if the IoU of consecutive analyzed boxes stayed above 0.3, every
\* detection has track_id 1 and there was one track and one enrichment in the run.
C18_EndToEnd ==
    \A t \in DOMAIN tasks :
        tasks[t].pc = "complete" =>
            LET task == tasks[t]
                artifact == tracking[task.video_id].data
            IN  /\ task.sample_rate = 5
                /\ AnalyzedFrames(task) = <<0, 5, 10, 15>>
                /\ DOMAIN artifact.tracks_by_frame = {"0", "500", "1000", "1500"}
                /\ \A ts \in DOMAIN artifact.tracks_by_frame :
                      Len(artifact.tracks_by_frame[ts]) = 1
                /\ MovesSmoothly(task) =>
                      /\ \A ts \in DOMAIN artifact.tracks_by_frame :
                            artifact.tracks_by_frame[ts][1].track_id = 1
                      /\ DOMAIN artifact.object_products = {"1"}
                      /\ task.next_track_id = 2
                      /\ Len(task.enrichments) = 1

\* C18 witness: the run is over for the cup that moved 3 pixels between analyzed
\* frames (IoU 5/8), with its four frame entries written.
C18_Witness ==
    \E t \in DOMAIN tasks :
        /\ tasks[t].pc = "complete"
        /\ detector = "moving by 3"
        /\ MovesSmoothly(tasks[t])
        /\ tasks[t].analyzed[4].detections[1].bbox.x = 9
        /\ Cardinality(DOMAIN tracking["v1"].data.tracks_by_frame) = 4

\* the step is a call of _assign_track_ids in the run of task t
AssignStep(t) ==
    /\ tasks[t].pc = "read"
    /\ tasks'[t].pc = "dets"

\* C19: a call of _assign_track_ids with no previous detections gives the n
\* detections, in their given order, the ids next_track_id, ..., next_track_id + n - 1
\* and returns the counter next_track_id + n.
C19_FirstFrameIds ==
    [][\A t \in DOMAIN tasks :
          (AssignStep(t) /\ tasks[t].previous_detections = <<>>) =>
              \E found \in detect_products(detector, tasks[t].frame_num) :
                  /\ Len(tasks'[t].detections) = Len(found)
                  /\ \A i \in DOMAIN found :
                        tasks'[t].detections[i] =
                            WithTrack(found[i], tasks[t].next_track_id + i - 1)
                  /\ tasks'[t].next_track_id = tasks[t].next_track_id + Len(found)]_vars

\* C19 witness: after a frame without detections two cups got the ids 3 and 4 and
\* the counter is 5.
C19_Witness ==
    \E t \in DOMAIN tasks :
        /\ tasks[t].pc = "dets"
        /\ tasks[t].previous_detections = <<>>
        /\ Len(tasks[t].detections) = 2
        /\ tasks[t].detections[1].track_id = 3
        /\ tasks[t].detections[2].track_id = 4
        /\ tasks[t].next_track_id = 5

\* task t is inside or just behind the frame loop
InLoop(t) == tasks[t].pc \in {"read", "dets", "write", "complete"}

\* the frames the loop of a task has decided on: all before frame_num, and
\* frame_num itself while its detections are being handled
DecidedFrames(task) ==
    {i \in 0..(task.nframes - 1) :
        i < task.frame_num \/ (i = task.frame_num /\ task.pc = "dets")}

\* among the decided frames, the analyzed ones are those the step divides
SampledBy(task, step) ==
    Range(AnalyzedFrames(task)) = {i \in DecidedFrames(task) : i % step = 0}

\* C20 as stated: the sampling step of a run is max(1, round(fps / 2)), and frame i
\* is analyzed if and only if i mod sample_rate = 0.
C20_SampleRateRounded ==
    \A t \in DOMAIN tasks :
        InLoop(t) =>
            /\ tasks[t].sample_rate = Max(1, round_div(tasks[t].fps, 2))
            /\ SampledBy(tasks[t], tasks[t].sample_rate)

\* C20 amended: the sampling step of a run is max(1, int(fps / 2)), fps / 2 cut to
\* its integer part, and frame i is analyzed if and only if i mod sample_rate = 0,
\* so frame 0 is analyzed whenever it is read.
C20_SampleRateTruncated ==
    \A t \in DOMAIN tasks :
        InLoop(t) =>
            /\ tasks[t].sample_rate = Max(1, tasks[t].fps \div 2)
            /\ SampledBy(tasks[t], Max(1, tasks[t].fps \div 2))
            /\ (0 \in DecidedFrames(tasks[t])) => AnalyzedFrames(tasks[t])[1] = 0

\* C20 witness: at 7 fps the step is 3, not round(3.5) = 4: frames 0, 3 and 6 were
\* analyzed and frame 4 was not.
C20_Witness ==
    \E t \in DOMAIN tasks :
        /\ tasks[t].pc = "write"
        /\ tasks[t].fps = 7
        /\ tasks[t].sample_rate = 3
        /\ SubSeq(AnalyzedFrames(tasks[t]), 1, 3) = <<0, 3, 6>>

\* C21: the progress of every job record lies between 0 and 100 inclusive, whatever
\* frame count the source reports and however many frames it yields.
C21_ProgressInRange ==
    \A v \in DOMAIN processing_status :
        /\ FracLe(Frac(0, 1), processing_status[v].progress)
        /\ FracLe(processing_status[v].progress, Frac(100, 1))

\* C21: the source reported one frame and yielded three: at the third frame,
\* frame_num 2, the record shows progress 200.
C21_Witness ==
    /\ videoFiles["v1"].total_frames = 1
    /\ "v1" \in DOMAIN processing_status
    /\ processing_status["v1"].status = "processing"
    /\ processing_status["v1"].progress = Frac(200, 1)
    /\ get_processing_status("v1").body.progress = Frac(200, 1)

\* C22: a start_processing call for a video_id that has a video file and whose
\* record is absent, completed or failed answers "started", leaves the fresh record
\* (processing, progress 0, empty log) in the registry and adds exactly one run for
\* the video_id, which has not yet read a frame when the call returns; nothing else
\* changes.
C22_StartRegisters ==
    [][\A v \in Videos :
          (StartStep(v) /\ videoFiles[v].exists /\ ~IsProcessing(v)) =>
              /\ start_response(v).code = 200
              /\ start_response(v).body.message = "Video processing started"
              /\ processing_status'[v] =
                    [status |-> "processing", progress |-> Frac(0, 1),
                     message |-> "Starting video processing...", logs |-> <<>>]
              /\ \A w \in DOMAIN processing_status :
                    w # v => processing_status'[w] = processing_status[w]
              /\ Len(tasks') = Len(tasks) + 1
              /\ \A t \in DOMAIN tasks : tasks'[t] = tasks[t]
              /\ tasks'[Len(tasks')].video_id = v
              /\ tasks'[Len(tasks')].pc = "log1"
              /\ tasks'[Len(tasks')].frame_num = 0
              /\ tasks'[Len(tasks')].processed_frames = 0
              /\ Cardinality(RunsOf(v)') = 1
              /\ tracking' = tracking]_vars

\* C22 witness: the first run of v1 is over and left a record with a log; a second
\* start_processing has just returned: the record is fresh and the new run has not
\* begun.
C22_Witness ==
    /\ Len(tasks) = 2
    /\ tasks[1].pc = "done"
    /\ tasks[1].video_id = "v1"
    /\ tasks[2].pc = "log1"
    /\ tasks[2].video_id = "v1"
    /\ processing_status["v1"] =
          [status |-> "processing", progress |-> Frac(0, 1),
           message |-> "Starting video processing...", logs |-> <<>>]

\* the previous ids the detections before position i of out have reused
ReusedBefore(prev, out, i) == {out[j].track_id : j \in 1..(i - 1)} \cap TrackIds(prev)

\* the previous detections still unmatched at position i that share the label of out[i]
Candidates(prev, out, i) ==
    {p \in DOMAIN prev :
        /\ prev[p].track_id \notin ReusedBefore(prev, out, i)
        /\ prev[p].label = out[i].label}

\* how many detections before position i of out got a fresh id
FreshBefore(prev, out, i) ==
    Cardinality({j \in 1..(i - 1) : out[j].track_id \notin TrackIds(prev)})

\* C23: in a call of _assign_track_ids with previous detections, a detection reuses
\* a previous id if and only if some still unmatched previous detection of its label
\* has an IoU with it strictly above 0.3, and then the id is that of a candidate of
\* maximal IoU; otherwise it gets the next fresh id, and the counter advances by the
\* number of fresh ids.
C23_MatchRule ==
    [][\A t \in DOMAIN tasks :
          (AssignStep(t) /\ tasks[t].previous_detections # <<>>) =>
              LET prev == tasks[t].previous_detections
                  out == tasks'[t].detections
                  next == tasks[t].next_track_id
              IN  /\ \A i \in DOMAIN out :
                        LET cands == Candidates(prev, out, i)
                            above == {p \in cands :
                                        FracGt(calculate_iou(out[i].bbox, prev[p].bbox),
                                               Frac(3, 10))}
                        IN  IF above # {}
                            THEN \E p \in above :
                                    /\ out[i].track_id = prev[p].track_id
                                    /\ \A q \in cands :
                                          FracLe(calculate_iou(out[i].bbox, prev[q].bbox),
                                                 calculate_iou(out[i].bbox, prev[p].bbox))
                            ELSE out[i].track_id = next + FreshBefore(prev, out, i)
                  /\ tasks'[t].next_track_id = next + FreshBefore(prev, out, Len(out) + 1)]_vars

\* C23 witness: the previous cup at x = 0 has id 1; a cup at x = 7 (IoU exactly 3/10)
\* got the fresh id 2 and a cup at x = 0 (IoU 1) reused id 1.
C23_Witness ==
    \E t \in DOMAIN tasks :
        /\ tasks[t].pc = "dets"
        /\ tasks[t].previous_detections = <<WithTrack(Det("cup", 0), 1)>>
        /\ tasks[t].detections = <<WithTrack(Det("cup", 7), 2), WithTrack(Det("cup", 0), 1)>>
        /\ calculate_iou(Near(7), Near(0)) = Frac(3, 10)
        /\ tasks[t].next_track_id = 3

(***************************************************************************)
(* _calculate_iou alone: one call on any two boxes of floats within the    *)
(* bounds, degenerate boxes included.                                      *)
(***************************************************************************)
One == Frac(1, 1)
FracAdd(a, b) == Frac(a.num * b.den + b.num * a.den, a.den * b.den)
FracMul(a, b) == Frac(a.num * b.num, a.den * b.den)

FloatValues == {v \in {Frac(k, 8) : k \in 0..MaxEighths} : IsFloat(v)}
FloatBoxes ==
    [x : FloatValues, y : {Zero}, width : FloatValues, height : {Zero, One}]

InitIou ==
    /\ videoFiles = [v \in Videos |-> NoFile]
    /\ tracking = [v \in Videos |-> NoArtifact]
    /\ processing_status = <<>>
    /\ tasks = <<>>
    /\ detector = "small"
    /\ logged = 0
    /\ faults = 0
    /\ requests = <<>>
    /\ mask_files = NoMasks
    /\ \E box1 \in FloatBoxes, box2 \in FloatBoxes :
          iou_call = [made |-> TRUE, box1 |-> box1, box2 |-> box2, returned |-> <<>>]

\* video_processor.py:61-85  the call returns
CalculateIou ==
    /\ iou_call.made
    /\ iou_call.returned = <<>>
    /\ iou_call' = [iou_call EXCEPT
            !.returned = <<calculate_iou_float(iou_call.box1, iou_call.box2)>>]
    /\ UNCHANGED <<videoFiles, mask_files, detector, faults, processing_status, tracking, tasks,
                   logged, requests>>

SpecIou == InitIou /\ [][CalculateIou]_vars

IouReturned == iou_call.made /\ iou_call.returned # <<>>
NonDegenerate(box) == FracGt(box.width, Zero) /\ FracGt(box.height, Zero)

\* C24: for every box b with positive width and height, IoU(b, b) = 1.
C24_SelfIouIsOne ==
    (IouReturned /\ iou_call.box1 = iou_call.box2 /\ NonDegenerate(iou_call.box1))
        => iou_call.returned[1] = One

\* _calculate_iou has returned for a box of positive width and height against itself
C24_Witness ==
    /\ IouReturned
    /\ iou_call.box1 = iou_call.box2
    /\ NonDegenerate(iou_call.box1)

\* Where the sums and the area of a box are floats themselves, nothing is rounded
\* and the IoU of the box with itself is exactly 1.
Unrounded(box) ==
    /\ IsFloat(FracAdd(box.x, box.width))
    /\ IsFloat(FracAdd(box.y, box.height))
    /\ IsFloat(FracMul(box.width, box.height))

SelfIouIsOneWhereExact ==
    (IouReturned /\ iou_call.box1 = iou_call.box2 /\ NonDegenerate(iou_call.box1)
        /\ Unrounded(iou_call.box1))
        => iou_call.returned[1] = One

\* The rectangles share a region of positive area (exact arithmetic).
Overlap(box1, box2) ==
    /\ FracGt(float_min(FracAdd(box1.x, box1.width), FracAdd(box2.x, box2.width)),
              float_max(box1.x, box2.x))
    /\ FracGt(float_min(FracAdd(box1.y, box1.height), FracAdd(box2.y, box2.height)),
              float_max(box1.y, box2.y))

\* C25: for all boxes a and b of non-negative width and height, IoU(a, b) = IoU(b, a),
\* 0 <= IoU(a, b) <= 1, and IoU(a, b) = 0 whenever the boxes do not overlap or the
\* area of their union is 0.
C25_IouProperties ==
    IouReturned =>
        LET a == iou_call.box1
            b == iou_call.box2
            iou == iou_call.returned[1]
        IN  /\ iou = calculate_iou_float(b, a)
            /\ FracLe(Zero, iou)
            /\ FracLe(iou, One)
            /\ ~Overlap(a, b) => iou = Zero
            /\ (~NonDegenerate(a) /\ ~NonDegenerate(b)) => iou = Zero

\* _calculate_iou has returned for two different boxes that overlap
C25_Witness ==
    /\ IouReturned
    /\ iou_call.box1 # iou_call.box2
    /\ Overlap(iou_call.box1, iou_call.box2)

\* All of it but the upper bound holds of the floats as well.
IouSymmetricAndZero ==
    IouReturned =>
        LET a == iou_call.box1
            b == iou_call.box2
            iou == iou_call.returned[1]
        IN  /\ iou = calculate_iou_float(b, a)
            /\ FracLe(Zero, iou)
            /\ ~Overlap(a, b) => iou = Zero
            /\ (~NonDegenerate(a) /\ ~NonDegenerate(b)) => iou = Zero

\* C26: in one call of _assign_track_ids a previous track is reused by at most one
\* current detection, and the detections it returns carry pairwise distinct
\* track_ids, whatever the order of the detections and however often one repeats.
C26_DistinctIds ==
    [][\A t \in DOMAIN tasks :
          AssignStep(t) =>
              LET out == tasks'[t].detections
              IN  \A i \in DOMAIN out, j \in DOMAIN out :
                      i # j => out[i].track_id # out[j].track_id]_vars

\* C26 witness: the same cup was detected twice on the previous cup, id 1: the
\* first reused 1, the second got the fresh id 2.
C26_Witness ==
    \E t \in DOMAIN tasks :
        /\ tasks[t].pc = "dets"
        /\ tasks[t].previous_detections = <<WithTrack(Det("cup", 0), 1)>>
        /\ tasks[t].detections = <<WithTrack(Det("cup", 0), 1), WithTrack(Det("cup", 0), 2)>>

\* C27: when several still unmatched previous detections of the label of a current
\* detection have the same maximal IoU with it, above 0.3, the detection reuses the
\* id of the one that comes first in previous_detections.
C27_TieToEarliest ==
    [][\A t \in DOMAIN tasks :
          (AssignStep(t) /\ tasks[t].previous_detections # <<>>) =>
              LET prev == tasks[t].previous_detections
                  out == tasks'[t].detections
              IN  \A i \in DOMAIN out :
                      LET cands == Candidates(prev, out, i)
                          best == {p \in cands :
                                    /\ FracGt(calculate_iou(out[i].bbox, prev[p].bbox),
                                              Frac(3, 10))
                                    /\ \A q \in cands :
                                          FracLe(calculate_iou(out[i].bbox, prev[q].bbox),
                                                 calculate_iou(out[i].bbox, prev[p].bbox))}
                      IN  best # {} =>
                              \E p \in best :
                                  /\ \A q \in best : p <= q
                                  /\ out[i].track_id = prev[p].track_id]_vars

\* C27 witness: two previous cups at x = 0, the first with id 2 and the second with
\* id 1; a cup at x = 0 (IoU 1 with both) reused id 2.
C27_Witness ==
    \E t \in DOMAIN tasks :
        /\ tasks[t].pc = "dets"
        /\ tasks[t].previous_detections =
              <<WithTrack(Det("cup", 0), 2), WithTrack(Det("cup", 0), 1)>>
        /\ tasks[t].detections = <<WithTrack(Det("cup", 0), 2)>>

\* the step stores the detections of an analyzed frame in the run of task t
StoreStep(t) ==
    /\ tasks[t].pc = "dets"
    /\ tasks'[t].pc = "read"

\* C28: for every analyzed frame index i and fps > 0, the key of the frame in
\* tracks_by_frame and the timestamp in the mask key of a track first seen in the
\* frame are round(i / fps * 1000).
C28_TimestampRounded ==
    [][\A t \in DOMAIN tasks :
          LET i == tasks[t].frame_num
              ts == round_div(i * 1000, tasks[t].fps)
          IN  /\ StoreStep(t) =>
                    DOMAIN tasks'[t].tracks_by_frame = DOMAIN tasks[t].tracks_by_frame \cup {ts}
              /\ (EnrichStep(t) /\ LastCall(t).track_id \in DOMAIN tasks'[t].object_products) =>
                    LET id == LastCall(t).track_id
                    IN  tasks'[t].object_products[id].mask_url =
                            mask_url_of(tasks[t].video_id, id, ts)]_vars

\* C28 amended: for every analyzed frame index i and fps > 0, the key of the frame
\* in tracks_by_frame and the timestamp in the mask key of a track first seen in
\* the frame are int(i / fps * 1000), the milliseconds cut to their integer part.
C28_TimestampTruncated ==
    [][\A t \in DOMAIN tasks :
          LET i == tasks[t].frame_num
              ts == (i * 1000) \div tasks[t].fps
          IN  /\ StoreStep(t) =>
                    DOMAIN tasks'[t].tracks_by_frame = DOMAIN tasks[t].tracks_by_frame \cup {ts}
              /\ (EnrichStep(t) /\ LastCall(t).track_id \in DOMAIN tasks'[t].object_products) =>
                    LET id == LastCall(t).track_id
                    IN  tasks'[t].object_products[id].mask_url =
                            mask_url_of(tasks[t].video_id, id, ts)]_vars

\* C28 witness: at 3 fps the cup that appears in frame 5 has the mask key of
\* 1666 ms and frame 5 is stored under 1666, where round(1666.67) is 1667.
C28_Witness ==
    \E t \in DOMAIN tasks :
        /\ tasks[t].fps = 3
        /\ 1666 \in DOMAIN tasks[t].tracks_by_frame
        /\ 2 \in DOMAIN tasks[t].object_products
        /\ tasks[t].object_products[2].mask_url = "/static/masks/v1/track_2_frame_1666.png"

\* C29: the tracking file of a run is written before the run's record becomes
\* completed: the step to completed finds the file holding the output of that run, a
\* completed record always has a readable tracking file of its video_id, and the
\* file does not change while the record stays completed.
C29_WrittenBeforeCompleted ==
    /\ [](\A v \in DOMAIN processing_status :
            processing_status[v].status = "completed" =>
                /\ tracking[v].kind = "json"
                /\ tracking[v].data.video_id = v
                /\ get_tracking_data(v).code = 200)
    /\ [][\A t \in DOMAIN tasks :
            LET v == tasks[t].video_id
            IN  (tasks[t].pc = "complete" /\ processing_status'[v].status = "completed") =>
                    /\ tracking[v] = [kind |-> "json", data |-> json_dump(output_data(tasks[t]))]
                    /\ tracking'[v] = tracking[v]]_vars
    /\ [][\A v \in DOMAIN processing_status :
            (processing_status[v].status = "completed"
               /\ processing_status'[v].status = "completed") =>
                tracking'[v] = tracking[v]]_vars

\* C29 witness: the second run of v1 is completed and its tracking file is read.
C29_Witness ==
    /\ "v1" \in DOMAIN processing_status
    /\ processing_status["v1"].status = "completed"
    /\ Cardinality({t \in DOMAIN tasks : tasks[t].video_id = "v1"}) = 2
    /\ get_tracking_data("v1").code = 200

\* the step is one in which the detector, the segmenter or the product search raised
\* in the run of task t
CollaboratorFails(t) ==
    \/ DetectorRaises(t)
    \/ /\ EnrichStep(t)
       /\ "raise" \in {LastCall(t).outcome.seg, LastCall(t).outcome.search,
                        LastCall(t).outcome.retry}

\* video_processor.py:199  the line logged for every new track
TrackLines ==
    {"Track " \o ToString(id) \o ": " \o label \o " [OWL-ViT + SAM] -> " \o label :
        id \in 1..(MaxFrames * MaxDets), label \in Labels}

\* C30: every failure of the detector, the segmenter or the product search during a
\* run adds a line about it to the log of the job's record, where the status query
\* shows it.
C30_FailuresLogged ==
    [][\A t \in DOMAIN tasks :
          CollaboratorFails(t) =>
              LET before == processing_status[tasks[t].video_id].logs
                  after == processing_status'[tasks[t].video_id].logs
              IN  \E k \in DOMAIN after :
                      /\ after[k] \notin Range(before)
                      /\ after[k] \notin TrackLines]_vars

\* C30 witness: segment_with_box raised for track 1 and the fallback stored the
\* entry; the run goes on and the log holds the two start lines and the ordinary
\* line of the track, as it does when nothing fails.
C30_Witness ==
    \E t \in DOMAIN tasks :
        /\ Running(t)
        /\ Len(tasks[t].enrichments) = 1
        /\ tasks[t].enrichments[1].outcome.seg = "raise"
        /\ tasks[t].enrichments[1].outcome.retry = "ok"
        /\ Len(StatusOf(t).logs) = 3
        /\ StatusOf(t).logs[3] \in TrackLines
        /\ get_processing_status(tasks[t].video_id).body.logs = StatusOf(t).logs

\* the keys of the frames a run has analyzed and of the tracks it has enriched, as
\* they appear in a tracking file
FrameKeysOf(task) ==
    {ToString((task.analyzed[i].frame_num * 1000) \div task.fps) : i \in DOMAIN task.analyzed}
TrackKeysOf(task) ==
    {ToString(task.enrichments[i].track_id) : i \in DOMAIN task.enrichments}

\* C31: the tracking file of a video_id changes only in the write step of a run of
\* that video_id, which comes after the last frame was read; a run that has left
\* its write step never returns to it; and the file a run writes holds exactly the
\* frames that run analyzed and the tracks that run enriched, nothing of an
\* earlier run.
C31_WrittenOnceAndReplaced ==
    /\ [][\A v \in Videos :
            tracking'[v] # tracking[v] =>
                \E t \in DOMAIN tasks :
                    /\ tasks[t].video_id = v
                    /\ tasks[t].pc = "write"
                    /\ tasks[t].opened => tasks[t].frame_num >= tasks[t].nframes
                    /\ tasks'[t].pc \in {"complete", "done"}]_vars
    /\ [][\A t \in DOMAIN tasks :
            tasks[t].pc \in {"complete", "done"} => tasks'[t].pc \in {"complete", "done"}]_vars
    /\ [][\A t \in DOMAIN tasks :
            (tasks[t].pc = "write" /\ tasks'[t].pc = "complete") =>
                LET file == tracking'[tasks[t].video_id]
                IN  /\ file.kind = "json"
                    /\ DOMAIN file.data.tracks_by_frame = FrameKeysOf(tasks[t])
                    /\ DOMAIN file.data.object_products = TrackKeysOf(tasks[t])]_vars

\* C31 witness: the second run of v1 found no object in two frames, and the file it
\* wrote holds two frames and no track.
C31_Witness ==
    /\ Cardinality({t \in DOMAIN tasks : tasks[t].video_id = "v1"}) = 2
    /\ tasks[2].pc = "complete"
    /\ tasks[2].enrichments = <<>>
    /\ Len(tasks[2].analyzed) = 2
    /\ tracking["v1"].kind = "json"
    /\ tracking["v1"].data.object_products = <<>>
    /\ Cardinality(DOMAIN tracking["v1"].data.tracks_by_frame) = 2

\* C32: every stored entry of a track that carries a mask_url refers to a file of
\* storage/masks, named after (video_id, track_id, timestamp of the frame the track
\* was first seen in), that holds the mask made for that track in that run; two
\* tracks never share a mask file or each other's mask.
C32_MaskPersisted ==
    \A t \in DOMAIN tasks :
        \A id \in DOMAIN tasks[t].object_products :
            LET entry == tasks[t].object_products[id]
            IN  entry.mask_url # "absent" =>
                    /\ \E i \in DOMAIN tasks[t].enrichments :
                          /\ tasks[t].enrichments[i].track_id = id
                          /\ entry.mask_url =
                                mask_url_of(tasks[t].video_id, id,
                                    (tasks[t].enrichments[i].frame_num * 1000) \div tasks[t].fps)
                    /\ entry.mask_url \in DOMAIN mask_files.masks
                    /\ mask_files.masks[entry.mask_url] =
                          [video_id |-> tasks[t].video_id, track_id |-> id, run |-> t]
                    /\ \A other \in DOMAIN tasks[t].object_products :
                          other # id => tasks[t].object_products[other].mask_url # entry.mask_url

\* C32 witness: two cups were first seen in frame 0; both entries carry a mask_url
\* and storage/masks holds a file for each.
C32_Witness ==
    \E t \in DOMAIN tasks :
        /\ {1, 2} \subseteq DOMAIN tasks[t].object_products
        /\ tasks[t].enrichments[1].frame_num = 0
        /\ tasks[t].enrichments[2].frame_num = 0
        /\ tasks[t].object_products[1].mask_url = "/static/masks/v1/track_1_frame_0.png"
        /\ tasks[t].object_products[2].mask_url = "/static/masks/v1/track_2_frame_0.png"
        /\ "/static/masks/v1/track_2_frame_0.png" \in DOMAIN mask_files.masks

\* C33: in every tracking file, and in the run that builds it, every stored
\* detection of a frame with track_id t has the class that is the category of the
\* entry of t in object_products: a track keeps the label it was first seen with.
C33_LabelConsistent ==
    /\ \A v \in Videos :
          tracking[v].kind = "json" =>
              LET file == tracking[v].data
              IN  \A ts \in DOMAIN file.tracks_by_frame :
                      \A i \in DOMAIN file.tracks_by_frame[ts] :
                          LET d == file.tracks_by_frame[ts][i]
                          IN  /\ ToString(d.track_id) \in DOMAIN file.object_products
                              /\ file.object_products[ToString(d.track_id)].category = d.class
    /\ \A t \in DOMAIN tasks :
          \A ts \in DOMAIN tasks[t].tracks_by_frame :
              \A i \in DOMAIN tasks[t].tracks_by_frame[ts] :
                  LET d == tasks[t].tracks_by_frame[ts][i]
                  IN  /\ d.track_id \in DOMAIN tasks[t].object_products
                      /\ tasks[t].object_products[d.track_id].category = d.class

\* C33 witness: the file of v1 holds a cup as track 1 in one frame and a bottle in
\* the same box as track 2 in a later frame.
C33_Witness ==
    /\ tracking["v1"].kind = "json"
    /\ {"1", "2"} \subseteq DOMAIN tracking["v1"].data.object_products
    /\ tracking["v1"].data.object_products["1"].category = "cup"
    /\ tracking["v1"].data.object_products["2"].category = "bottle"
    /\ \E ts \in DOMAIN tracking["v1"].data.tracks_by_frame :
          /\ Len(tracking["v1"].data.tracks_by_frame[ts]) = 1
          /\ tracking["v1"].data.tracks_by_frame[ts][1].track_id = 2
          /\ tracking["v1"].data.tracks_by_frame[ts][1].bbox = Near(0)

\* the track ids stored in the frames of a tracks_by_frame dictionary
StoredIds(tracks_by_frame) ==
    UNION {{tracks_by_frame[ts][i].track_id : i \in DOMAIN tracks_by_frame[ts]} :
              ts \in DOMAIN tracks_by_frame}

\* C34: after every analyzed frame that was processed to its end, and in the
\* tracking file a run writes, the keys of object_products are the track ids that
\* appear in tracks_by_frame and are 1, ..., next_track_id - 1.
C34_IdsContiguous ==
    /\ \A t \in DOMAIN tasks :
          tasks[t].pc \in {"read", "write", "complete"} =>
              /\ DOMAIN tasks[t].object_products = 1..(tasks[t].next_track_id - 1)
              /\ StoredIds(tasks[t].tracks_by_frame) = 1..(tasks[t].next_track_id - 1)
    /\ \A t \in DOMAIN tasks :
          tasks[t].pc = "complete" =>
              LET file == tracking[tasks[t].video_id].data
              IN  /\ DOMAIN file.object_products =
                        {ToString(id) : id \in 1..(tasks[t].next_track_id - 1)}
                  /\ StoredIds(file.tracks_by_frame) = 1..(tasks[t].next_track_id - 1)

\* C34 witness: three tracks in three frames, one of them a cup that reused its id,
\* and the file lists the entries 1, 2 and 3.
C34_Witness ==
    \E t \in DOMAIN tasks :
        /\ tasks[t].pc = "complete"
        /\ tasks[t].next_track_id = 4
        /\ Len(tasks[t].fresh_ids) = 3
        /\ \E i \in 2..Len(tasks[t].analyzed) :
              TrackIds(tasks[t].analyzed[i].detections)
                  \cap TrackIds(tasks[t].analyzed[i - 1].detections) # {}
        /\ DOMAIN tracking["v1"].data.object_products = {"1", "2", "3"}

C36_FailureKeepsArtifact ==
    /\ [][\A v \in Videos :
            tracking'[v] # tracking[v] =>
                \E t \in DOMAIN tasks :
                    /\ tasks[t].video_id = v
                    /\ tasks[t].pc = "write"
                    /\ tasks'[t].pc = "complete"]_vars
    /\ [][\A v \in DOMAIN processing_status :
            (processing_status[v].status = "processing"
               /\ processing_status'[v].status = "failed") =>
                tracking'[v] = tracking[v]]_vars

\* C36 witness: v1 had no tracking file; its run failed in json.dump and left a
\* truncated file.
C36_Witness ==
    /\ "v1" \in DOMAIN processing_status
    /\ processing_status["v1"].status = "failed"
    /\ processing_status["v1"].message = "Processing failed: write failed"
    /\ tracking["v1"].kind = "partial"
    /\ Cardinality({t \in DOMAIN tasks : tasks[t].video_id = "v1"}) = 1

\* C37: a step of a run for one video_id leaves the record and the tracking file of
\* every other video_id unchanged, and every run gives out the ids 1, 2, ... in
\* order, whatever the other runs do.
C37_Isolated ==
    /\ [][\A t \in DOMAIN tasks :
            tasks'[t] # tasks[t] =>
                \A v \in Videos \ {tasks[t].video_id} :
                    /\ tracking'[v] = tracking[v]
                    /\ (v \in DOMAIN processing_status) = (v \in DOMAIN processing_status')
                    /\ v \in DOMAIN processing_status =>
                          processing_status'[v] = processing_status[v]]_vars
    /\ [](\A t \in DOMAIN tasks :
            \A i \in DOMAIN tasks[t].fresh_ids : tasks[t].fresh_ids[i] = i)

\* C37 witness: the runs of v1 and v2 are both in their frame loop and each has
\* given the id 1 to its cup.
C37_Witness ==
    \E t1 \in DOMAIN tasks, t2 \in DOMAIN tasks :
        /\ tasks[t1].video_id = "v1"
        /\ tasks[t2].video_id = "v2"
        /\ tasks[t1].pc \in {"read", "dets"}
        /\ tasks[t2].pc \in {"read", "dets"}
        /\ tasks[t1].fresh_ids = <<1>>
        /\ tasks[t2].fresh_ids = <<1>>

(***************************************************************************)
(* Progress of the runs.  A background task is a coroutine of the event    *)
(* loop: the loop resumes it whenever the call it awaits has returned or   *)
(* raised, so a step of a run that stays possible is eventually taken.     *)
(***************************************************************************)
TaskStep(t) ==
    /\ t \in DOMAIN tasks
    /\ \/ LogStart(t)
       \/ OpenVideo(t)
       \/ ReadFrame(t)
       \/ TrackDetection(t)
       \/ StoreFrame(t)
       \/ WriteArtifact(t)
       \/ Complete(t)

FairJob == InitJob /\ [][Next]_vars /\ \A t \in 1..MaxStarts : WF_vars(TaskStep(t))

IsTerminal(video_id) ==
    /\ video_id \in DOMAIN processing_status
    /\ processing_status[video_id].status \in {"completed", "failed"}

\* C38: every run that was started, on a source of finitely many frames and with
\* collaborators that return or raise, reaches completed or failed: a record that
\* is "processing" becomes terminal, and start_processing then no longer finds the
\* video_id being processed.
C38_RunsTerminate ==
    \A v \in Videos :
        IsProcessing(v) ~> (IsTerminal(v) /\ ~already_processing(v))

\* C38 witness: the run of v1 has read all its frames and its record is completed.
C38_Witness ==
    /\ IsTerminal("v1")
    /\ processing_status["v1"].status = "completed"
    /\ \E t \in DOMAIN tasks : tasks[t].video_id = "v1" /\ tasks[t].pc = "done"
    /\ tracking["v1"].kind = "json"
    /\ Cardinality(DOMAIN tracking["v1"].data.tracks_by_frame) = MaxFrames

====
